---- MODULE Spec2Model ----
(***************************************************************************)
(* Asynchronous report-generation jobs of simgas: the invoke endpoint      *)
(* (netlify/functions/generate-report-invoke.js and its earlier variants), *)
(* the background worker (generate-report-process-background.js), the      *)
(* status endpoint, and the Netlify Blobs store "reports" they share.      *)
(*                                                                         *)
(* JavaScript strings are TLA+ strings.  The module language accepts only  *)
(* ASCII, so every non-ASCII character of a literal is written as one      *)
(* ASCII character (box drawing as - | +, subscripts and superscripts as   *)
(* the plain digit or sign, the degree sign as o, the en dash as -); all   *)
(* lengths are those of the source.                                        *)
(***************************************************************************)
EXTENDS Integers, Sequences, FiniteSets, TLC

(***************************************************************************)
(* Bounds of the model.                                                    *)
(***************************************************************************)
\* invocations of the invoke endpoint
MaxCalls == 1
\* invocations of the background worker
MaxWorkers == 2
\* Job Store operations that fail in one run
MaxFaults == 1

(***************************************************************************)
(* JavaScript values.                                                      *)
(***************************************************************************)
\* the value undefined; a template literal renders it as these letters
Undefined == "undefined"

\* a falsy string-or-undefined value: undefined or ''
Falsy(v) == v = Undefined \/ v = ""

\* v || d
OrElse(v, d) == IF Falsy(v) THEN d ELSE v

\* obj.f, undefined when the object has no such property
Prop(obj, f) == IF f \in DOMAIN obj THEN obj[f] ELSE Undefined

\* JSON.parse(JSON.stringify(obj)) of a flat object: undefined properties
\* are dropped, the others kept
JsonObject(obj) == [f \in {g \in DOMAIN obj : obj[g] # Undefined} |-> obj[f]]

Char(s, i) == SubSeq(s, i, i)

Blanks == "                                                            "

\* s.padEnd(n, ' ')
padEnd(s, n) == IF Len(s) >= n THEN s ELSE s \o SubSeq(Blanks, 1, n - Len(s))

\* num.toString().padStart(2, '0')
format(num) == IF num < 10 THEN "0" \o ToString(num) ELSE ToString(num)

\* s.indexOf(c) + 1, 0 when c does not occur
IndexOf(s, c) ==
    IF \E i \in 1..Len(s) : Char(s, i) = c
    THEN CHOOSE i \in 1..Len(s) :
            Char(s, i) = c /\ \A k \in 1..(i - 1) : Char(s, k) # c
    ELSE 0

\* text.split(' ')
RECURSIVE split(_)
split(text) ==
    LET i == IndexOf(text, " ")
    IN  IF i = 0 THEN <<text>>
        ELSE <<SubSeq(text, 1, i - 1)>> \o split(SubSeq(text, i + 1, Len(text)))

\* the for loop of wordWrap and the push that follows it
RECURSIVE wrapLoop(_, _, _, _)
wrapLoop(words, maxWidth, currentLine, lines) ==
    IF words = <<>>
    THEN IF currentLine # "" THEN Append(lines, currentLine) ELSE lines
    ELSE LET word == Head(words)
         IN  IF Len(currentLine \o " " \o word) > maxWidth
             THEN wrapLoop(Tail(words), maxWidth, word, Append(lines, currentLine))
             ELSE wrapLoop(Tail(words), maxWidth,
                           currentLine \o (IF currentLine # "" THEN " " ELSE "") \o word,
                           lines)

\* as wordWrap would be if it cut the text at maxWidth
wordWrapCutting(text, maxWidth) ==
    <<SubSeq(text, 1, IF Len(text) < maxWidth THEN Len(text) ELSE maxWidth)>>

wordWrap(text, maxWidth) == wrapLoop(split(text), maxWidth, "", <<>>)

formatLine(label, value, unit, reference) ==
    LET labelCol == padEnd(label, 18)
        valueCol == padEnd(OrElse(value, ""), 12)
        unitCol  == padEnd(unit, 11)
    IN  labelCol \o valueCol \o unitCol \o reference \o "\n"

(***************************************************************************)
(* getDobFromScenario: the age is read from the scenario with              *)
(* /\b(\d{1,3})\s*(year-old|year old|yo|y\/o)\b/i, else drawn at random.   *)
(***************************************************************************)
Digits == "0123456789"
LowerCase == "abcdefghijklmnopqrstuvwxyz"
UpperCase == "ABCDEFGHIJKLMNOPQRSTUVWXYZ"

IsDigit(c) == IndexOf(Digits, c) # 0
IsWordChar(c) ==
    IsDigit(c) \/ IndexOf(LowerCase, c) # 0 \/ IndexOf(UpperCase, c) # 0 \/ c = "_"
IsSpace(c) == c \in {" ", "\n", "\t"}

ToLowerChar(c) ==
    IF IndexOf(UpperCase, c) # 0 THEN Char(LowerCase, IndexOf(UpperCase, c)) ELSE c

RECURSIVE ToLower(_)
ToLower(s) ==
    IF s = "" THEN "" ELSE ToLowerChar(Char(s, 1)) \o ToLower(SubSeq(s, 2, Len(s)))

\* parseInt(digits, 10) of a string of digits
RECURSIVE parseInt(_)
parseInt(digits) ==
    IF digits = "" THEN 0
    ELSE 10 * parseInt(SubSeq(digits, 1, Len(digits) - 1))
         + (IndexOf(Digits, Char(digits, Len(digits))) - 1)

AgeWords == {"year-old", "year old", "yo", "y/o"}

\* the first position at or after p that holds no white space
SkipSpace(s, p) ==
    CHOOSE q \in p..(Len(s) + 1) :
        /\ \A k \in p..(q - 1) : IsSpace(Char(s, k))
        /\ q = Len(s) + 1 \/ ~IsSpace(Char(s, q))

\* ageRegex matches at position i with d digits
AgeMatchAt(s, i, d) ==
    /\ i + d - 1 <= Len(s)
    /\ i = 1 \/ ~IsWordChar(Char(s, i - 1))
    /\ \A k \in i..(i + d - 1) : IsDigit(Char(s, k))
    /\ LET p == SkipSpace(s, i + d)
       IN  \E w \in AgeWords :
              /\ p + Len(w) - 1 <= Len(s)
              /\ ToLower(SubSeq(s, p, p + Len(w) - 1)) = w
              /\ p + Len(w) - 1 = Len(s) \/ ~IsWordChar(Char(s, p + Len(w)))

\* match[1] of scenario.match(ageRegex), '' when there is no match
AgeMatch(s) ==
    LET hits == {<<i, d>> \in (1..Len(s)) \X (1..3) : AgeMatchAt(s, i, d)}
    IN  IF hits = {} THEN ""
        ELSE LET h == CHOOSE x \in hits : \A y \in hits : x[1] <= y[1]
             IN  SubSeq(s, h[1], h[1] + h[2] - 1)

\* Math.floor(Math.random() * n) for a draw r of Math.random() in thousandths
RandomBelow(r, n) == (r * n) \div 1000

\* the three draws of Math.random() are rAge, rMonth and rDay, in that order;
\* currentYear is new Date().getFullYear()
getDobFromScenario(scenario, rAge, rMonth, rDay, currentYear) ==
    LET match      == AgeMatch(scenario)
        age        == IF match # "" THEN parseInt(match)
                      ELSE RandomBelow(rAge, 90 - 18 + 1) + 18
        birthYear  == currentYear - age
        birthMonth == RandomBelow(rMonth, 12) + 1
        birthDay   == RandomBelow(rDay, 28) + 1
    IN  format(birthDay) \o "/" \o format(birthMonth) \o "/" \o ToString(birthYear)

(***************************************************************************)
(* The report of the background worker                                     *)
(* (generate-report-process-background.js, lines 136-189).                 *)
(***************************************************************************)
Rule == "--------------------------------------------------------\n"

RECURSIVE boxLines(_)
\* lines.forEach(line => { formattedReport += `| ${line.padEnd(54, ' ')} |\n`; })
boxLines(lines) ==
    IF lines = <<>> THEN ""
    ELSE "| " \o padEnd(Head(lines), 54) \o " |\n" \o boxLines(Tail(lines))

\* the three lines whose reference ranges depend on the sample type
ReferenceLines(reportData, gasType) ==
    IF gasType = "Venous"
    THEN formatLine("pH", Prop(reportData, "ph"), "", "(7.310 - 7.410)")
         \o formatLine("PCO2", Prop(reportData, "pco2"), "kPa", "(5.30 - 6.70)")
         \o formatLine("PO2", Prop(reportData, "po2"), "kPa", "(4.00 - 6.70)")
    ELSE formatLine("pH", Prop(reportData, "ph"), "", "(7.350 - 7.450)")
         \o formatLine("PCO2", Prop(reportData, "pco2"), "kPa", "(4.67 - 6.00)")
         \o formatLine("PO2", Prop(reportData, "po2"), "kPa", "(10.67 - 13.33)")

formattedReport(reportData, scenario, gasType, dob) ==
    "                   Blood Gas\n"
    \o "                 Emergency Department\n"
    \o Rule
    \o "Patient ID:       " \o OrElse(Prop(reportData, "patientId"), "") \o "\n"
    \o "Last Name         " \o OrElse(Prop(reportData, "lastName"), "") \o "\n"
    \o "First Name        " \o OrElse(Prop(reportData, "firstName"), "") \o "\n"
    \o "Date of Birth     " \o dob \o "\n"
    \o "Temperature       " \o OrElse(Prop(reportData, "temperature"), "") \o " o C\n"
    \o "FIO2              " \o OrElse(Prop(reportData, "fio2"), "") \o "\n"
    \o "Sample type       Blood\n"
    \o "Blood Type        " \o gasType \o "\n"
    \o Rule
    \o ReferenceLines(reportData, gasType)
    \o Rule
    \o formatLine("Na+", Prop(reportData, "na"), "mmol/L", "(135.0 - 148.0)")
    \o formatLine("K+", Prop(reportData, "k"), "mmol/L", "(3.50 - 4.50)")
    \o formatLine("Cl-", Prop(reportData, "cl"), "mmol/L", "(98.0 - 107.0)")
    \o formatLine("Ca2+", Prop(reportData, "ca"), "mmol/L", "(1.120 - 1.320)")
    \o Rule
    \o formatLine("HCT", Prop(reportData, "hct"), "%", "(35.0 - 50.0)")
    \o Rule
    \o formatLine("Glucose", Prop(reportData, "glucose"), "mmol/L", "(3.3 - 6.1)")
    \o formatLine("Lactate", Prop(reportData, "lactate"), "mmol/L", "(0.4 - 2.2)")
    \o Rule
    \o formatLine("tHb", Prop(reportData, "thb"), "g/dL", "(11.5 - 17.4)")
    \o formatLine("O2 Hb", Prop(reportData, "o2hb"), "%", "(95.0 - 99.0)")
    \o formatLine("COHb", Prop(reportData, "cohb"), "%", "(0.5 - 2.5)")
    \o formatLine("HHb", Prop(reportData, "hhb"), "%", "(1.0 - 5.0)")
    \o formatLine("MetHb", Prop(reportData, "methb"), "%", "(0.4 - 1.5)")
    \o Rule
    \o formatLine("BE", Prop(reportData, "be"), "mmol/L", "(-2.3 - 2.3)")
    \o formatLine("cHCO3", Prop(reportData, "chco3"), "mmol/L", "")
    \o formatLine("AaDO2", Prop(reportData, "aado2"), "kPa", "")
    \o formatLine("SO2", Prop(reportData, "so2"), "%", "(75.0 - 99.0)")
    \o formatLine("cHCO3 st", Prop(reportData, "chco3st"), "mmol/L", "(22.4 - 25.8)")
    \o formatLine("P50", Prop(reportData, "p50"), "kPa", "")
    \o formatLine("ctO2", Prop(reportData, "cto2"), "Vol %", "") \o "\n\n"
    \o "+--------------------------------------------------------+\n"
    \o "| Interpretation                                         |\n"
    \o "+--------------------------------------------------------+\n"
    \o boxLines(wordWrap("Scenario: " \o scenario, 54))
    \o "| " \o padEnd("", 54) \o " |\n"
    \o boxLines(wordWrap("Interpretation: "
                         \o OrElse(Prop(reportData, "interpretation"), "Not provided"), 54))
    \o "+--------------------------------------------------------+\n"

(***************************************************************************)
(* Inputs of the model: request bodies, responses of the generation        *)
(* service, draws of Math.random(), clock readings.                        *)
(***************************************************************************)
ShortScenario == "65 year old with COPD exacerbation"
LongScenario ==
    "Young adult found collapsed at home after a suspected overdose, drowsy and hypoventilating"

\* bodies of POST /generate-report-invoke; parses is FALSE for a body that
\* is not JSON
ValidRequests ==
    { [parses |-> TRUE, scenario |-> ShortScenario, gasType |-> "Arterial"],
      [parses |-> TRUE, scenario |-> LongScenario, gasType |-> "Venous"] }

InvalidRequests ==
    { [parses |-> TRUE, scenario |-> Undefined, gasType |-> "Arterial"],
      [parses |-> TRUE, scenario |-> "", gasType |-> "Venous"],
      [parses |-> FALSE, scenario |-> Undefined, gasType |-> Undefined] }

Requests == ValidRequests \cup InvalidRequests

\* the Generated Record the prompt gives as the structure to follow (line
\* 108), and one with no field
FullRecord ==
    [patientId |-> "123456", lastName |-> "Smith", firstName |-> "Jane",
     temperature |-> "37.0", fio2 |-> "0.21", ph |-> "7.35", pco2 |-> "5.50",
     po2 |-> "12.00", na |-> "140", k |-> "4.1", cl |-> "100", ca |-> "1.20",
     hct |-> "45", glucose |-> "5.5", lactate |-> "1.2", thb |-> "15.0",
     o2hb |-> "98.0", cohb |-> "1.1", hhb |-> "1.9", methb |-> "0.6",
     be |-> "0.0", chco3 |-> "24.0", aado2 |-> "15.0", so2 |-> "98.2",
     interpretation |-> "Normal Acid-Base Balance"]

EmptyRecord == [f \in {} |-> ""]

\* What one fetch of the generation service can do.  kind "throw": the
\* fetch rejects with an error carrying message; "status": a response that
\* is not ok; "notJson": a 200 whose body is not JSON; "noCandidates": a
\* 200 JSON body without candidates; "text": a 200 whose
\* candidates[0].content.parts[0].text is the model text, given by its form
\* ("json": a pure JSON object; "fenced": the object inside a ``` fence;
\* "prose": the object between sentences; "garbage": no JSON at all) and
\* the object it carries.
Outcome(kind, status, message, form, obj) ==
    [kind |-> kind, status |-> status, message |-> message, form |-> form, obj |-> obj]

WellFormedOutcomes ==
    { Outcome("text", "200", "", "json", FullRecord) }

NetworkErrorOutcomes ==
    { Outcome("throw", "", "fetch failed", "", EmptyRecord),
      Outcome("throw", "", "", "", EmptyRecord) }

OtherOutcomes ==
    { Outcome("status", "429", "", "", EmptyRecord),
      Outcome("text", "200", "", "fenced", FullRecord) }

\* the service behaves as extMode says for the whole run
Outcomes(mode) ==
    CASE mode = "wellformed" -> WellFormedOutcomes
      [] mode = "netfail"    -> NetworkErrorOutcomes
      [] OTHER               -> WellFormedOutcomes \cup NetworkErrorOutcomes \cup OtherOutcomes

\* draws of Math.random(), in thousandths: the three draws of one call of
\* getDobFromScenario
RandomDraws == { <<0, 0, 0>>, <<999, 999, 999>> }

\* new Date().getFullYear() and new Date().toISOString()
Years == {2025}
Timestamps == {"2025-06-01T12:00:00.000Z"}

\* job identifiers: the n-th value randomUUID() returns, and one that it
\* never returns
Uuid(n) == "uuid-" \o ToString(n)
ForeignId == "not-a-job"

(***************************************************************************)
(* State.                                                                  *)
(***************************************************************************)
VARIABLES
    store,      \* the blob store "reports": a function from keys to JSON objects
    writers,    \* history: for each key, who wrote it, in order
    faults,     \* history: Job Store operations that have failed
    extMode,    \* how the generation service behaves in this run
    calls,      \* invocations of the invoke endpoint, in order of arrival
    inflight,   \* job identifiers of dispatched and undelivered worker requests
    dispatched, \* history: job identifiers ever dispatched
    workers,    \* invocations of the background worker, in order of arrival
    lastStatus, \* the last answer of the status endpoint
    retry,      \* one invocation of a retrying request wrapper and of its caller
    parser,     \* one model text and what the response parsers make of it
    formatter,  \* one generated record and the reports formatted from it
    gasCall     \* one invocation of the gas-report handler

\* the state of the job pattern, and of the synchronous handlers
jobVars == <<store, writers, faults, extMode, calls, inflight, dispatched, workers, lastStatus>>
syncVars == <<retry, parser, formatter, gasCall>>
vars == <<jobVars, syncVars>>

NoRecord == [none |-> "none"]

\* jobStore.get(key, { type: "json" }): null when the key is absent
StoreGet(key) == IF key \in DOMAIN store THEN store[key] ELSE NoRecord

\* as StorePut would be if setJSON replaced the content of the store
StorePutClearing(key, value, who) ==
    /\ store' = [k \in {key} |-> JsonObject(value)]
    /\ writers' = [k \in DOMAIN writers \cup {key} |->
                    IF k = key
                    THEN (IF k \in DOMAIN writers THEN writers[k] ELSE <<>>) \o <<who>>
                    ELSE writers[k]]

\* the store and its history after setJSON(key, value) by who
StorePut(key, value, who) ==
    /\ store' = [k \in DOMAIN store \cup {key} |->
                    IF k = key THEN JsonObject(value) ELSE store[k]]
    /\ writers' = [k \in DOMAIN writers \cup {key} |->
                    IF k = key
                    THEN (IF k \in DOMAIN writers THEN writers[k] ELSE <<>>) \o <<who>>
                    ELSE writers[k]]

\* whether a Job Store operation answers (TRUE) or throws (FALSE)
StoreAnswers == IF faults < MaxFaults THEN {TRUE, FALSE} ELSE {TRUE}

StoreErrorMessage == "Netlify Blobs has generated an internal error"

\* keyWrites and repeat are history: the writes the key had taken when it was
\* read, and whether the answer before this one was to the same jobId with
\* no write of the key in between
NoStatus ==
    [jobId |-> "", code |-> 0, body |-> NoRecord, keyWrites |-> 0, repeat |-> FALSE]

\* no wrapper invocation, no text to parse, no record to format, no request
\* to the gas-report handler
NoRetry == [fn |-> "none"]
NoParser == [fn |-> "none"]
NoFormatter == [fn |-> "none"]
NoGasCall == [fn |-> "none"]

Init ==
    /\ store = [k \in {} |-> NoRecord]
    /\ writers = [k \in {} |-> <<>>]
    /\ faults = 0
    /\ extMode = "any"
    /\ calls = <<>>
    /\ inflight = {}
    /\ dispatched = {}
    /\ workers = <<>>
    /\ gasCall = NoGasCall
    /\ lastStatus = NoStatus
    /\ retry = NoRetry
    /\ parser = NoParser
    /\ formatter = NoFormatter

(***************************************************************************)
(* The invoke endpoint, netlify/functions/generate-report-invoke.js.       *)
(* One invocation is two steps: up to the await of setJSON, and from its   *)
(* resolution to the return.                                               *)
(***************************************************************************)
Call(variant, req, jobId, pc, code) ==
    [variant |-> variant, parses |-> req.parses, scenario |-> req.scenario,
     gasType |-> req.gasType, jobId |-> jobId, pc |-> pc, code |-> code]

\* randomUUID(): a value it has not returned before
NextUuid == Uuid(Cardinality({i \in 1..Len(calls) : calls[i].jobId # Undefined}) + 1)

\* as InitialJob would be if a new job were saved under another status
InitialJobQueued(req, timestamp) ==
    [status |-> "queued", scenario |-> req.scenario, gasType |-> req.gasType,
     timestamp |-> timestamp]

\* the record generate-report-invoke.js saves for a new job
InitialJob(req, timestamp) ==
    [status |-> "processing", scenario |-> req.scenario, gasType |-> req.gasType,
     timestamp |-> timestamp]

\* as generateReportInvoke would be with the background request sent before
\* the await of setJSON
generateReportInvokeDispatchFirst(req) ==
    /\ Len(calls) < MaxCalls
    /\ IF ~req.parses
       THEN /\ calls' = Append(calls, Call("invoke", req, Undefined, "done", 500))
            /\ UNCHANGED <<store, writers, faults, inflight, dispatched>>
       ELSE LET jobId == NextUuid
            IN  /\ inflight' = inflight \cup {jobId}
                /\ dispatched' = dispatched \cup {jobId}
                /\ \E answers \in StoreAnswers, timestamp \in Timestamps :
                      IF answers
                      THEN /\ StorePut(jobId, InitialJob(req, timestamp), "invoke")
                           /\ calls' = Append(calls, Call("invoke", req, jobId, "stored", 0))
                           /\ UNCHANGED faults
                      ELSE /\ faults' = faults + 1
                           /\ calls' = Append(calls, Call("invoke", req, jobId, "done", 500))
                           /\ UNCHANGED <<store, writers>>
    /\ UNCHANGED <<extMode, workers, lastStatus, syncVars>>

\* as generateReportInvoke would be if a rejected setJSON were swallowed
generateReportInvokeSwallowing(req) ==
    /\ Len(calls) < MaxCalls
    /\ IF ~req.parses
       THEN /\ calls' = Append(calls, Call("invoke", req, Undefined, "done", 500))
            /\ UNCHANGED <<store, writers, faults>>
       ELSE LET jobId == NextUuid
            IN  \E answers \in StoreAnswers, timestamp \in Timestamps :
                   IF answers
                   THEN /\ StorePut(jobId, InitialJob(req, timestamp), "invoke")
                        /\ calls' = Append(calls, Call("invoke", req, jobId, "stored", 0))
                        /\ UNCHANGED faults
                   ELSE /\ faults' = faults + 1
                        /\ calls' = Append(calls, Call("invoke", req, jobId, "stored", 0))
                        /\ UNCHANGED <<store, writers>>
    /\ UNCHANGED <<extMode, inflight, dispatched, workers, lastStatus, syncVars>>

generateReportInvoke(req) ==
    /\ Len(calls) < MaxCalls
    /\ IF ~req.parses
       THEN \* req.json() rejects: the catch answers 500
            /\ calls' = Append(calls, Call("invoke", req, Undefined, "done", 500))
            /\ UNCHANGED <<store, writers, faults>>
       ELSE LET jobId == NextUuid
            IN  \E answers \in StoreAnswers, timestamp \in Timestamps :
                   IF answers
                   THEN /\ StorePut(jobId, InitialJob(req, timestamp), "invoke")
                        /\ calls' = Append(calls, Call("invoke", req, jobId, "stored", 0))
                        /\ UNCHANGED faults
                   ELSE \* setJSON rejects: the catch answers 500
                        /\ faults' = faults + 1
                        /\ calls' = Append(calls, Call("invoke", req, jobId, "done", 500))
                        /\ UNCHANGED <<store, writers>>
    /\ UNCHANGED <<extMode, inflight, dispatched, workers, lastStatus, syncVars>>

\* the fetch of the background function, not awaited, and the 202
generateReportInvokeResume(i) ==
    /\ i \in 1..Len(calls)
    /\ calls[i].variant = "invoke"
    /\ calls[i].pc = "stored"
    /\ inflight' = inflight \cup {calls[i].jobId}
    /\ dispatched' = dispatched \cup {calls[i].jobId}
    /\ calls' = [calls EXCEPT ![i].pc = "done", ![i].code = 202]
    /\ UNCHANGED <<store, writers, faults, extMode, workers, lastStatus, syncVars>>

(***************************************************************************)
(* The invoke endpoint of src/unnamed/part_002 ("Report Generation         *)
(* Invoker"), which builds the worker's URL from its context argument.     *)
(***************************************************************************)
reportGenerationInvoker(req) ==
    /\ Len(calls) < MaxCalls
    /\ IF ~req.parses
       THEN /\ calls' = Append(calls, Call("invoker", req, Undefined, "done", 500))
            /\ UNCHANGED <<store, writers, faults>>
       ELSE LET jobId == NextUuid
            IN  \E answers \in StoreAnswers, timestamp \in Timestamps :
                   IF answers
                   THEN /\ StorePut(jobId, InitialJob(req, timestamp), "invoke")
                        /\ calls' = Append(calls, Call("invoker", req, jobId, "stored", 0))
                        /\ UNCHANGED faults
                   ELSE /\ faults' = faults + 1
                        /\ calls' = Append(calls, Call("invoker", req, jobId, "done", 500))
                        /\ UNCHANGED <<store, writers>>
    /\ UNCHANGED <<extMode, inflight, dispatched, workers, lastStatus, syncVars>>

\* lines 19-42: context.clientContext and context.site are what the platform
\* passed; when either is undefined the statement throws and the catch
\* answers 500 with the record written and no worker dispatched
reportGenerationInvokerResume(i) ==
    /\ i \in 1..Len(calls)
    /\ calls[i].variant = "invoker"
    /\ calls[i].pc = "stored"
    /\ \E contextGiven \in BOOLEAN :
          IF contextGiven
          THEN /\ inflight' = inflight \cup {calls[i].jobId}
               /\ dispatched' = dispatched \cup {calls[i].jobId}
               /\ calls' = [calls EXCEPT ![i].pc = "done", ![i].code = 202]
          ELSE /\ calls' = [calls EXCEPT ![i].pc = "done", ![i].code = 500]
               /\ UNCHANGED <<inflight, dispatched>>
    /\ UNCHANGED <<store, writers, faults, extMode, workers, lastStatus, syncVars>>

(***************************************************************************)
(* The earlier invoke endpoint, src/unnamed/part_006 (exports.handler).    *)
(***************************************************************************)
\* the record part_006 saves for a new job
handlerJob(req) ==
    [status |-> "processing", scenario |-> req.scenario, gasType |-> req.gasType]

handler(req) ==
    /\ Len(calls) < MaxCalls
    /\ IF ~req.parses
       THEN \* JSON.parse(req.body) throws: the catch answers 500
            /\ calls' = Append(calls, Call("handler", req, Undefined, "done", 500))
            /\ UNCHANGED <<store, writers, faults>>
       ELSE IF Falsy(req.scenario)
       THEN /\ calls' = Append(calls, Call("handler", req, Undefined, "done", 400))
            /\ UNCHANGED <<store, writers, faults>>
       ELSE LET jobId == NextUuid
            IN  \E answers \in StoreAnswers :
                   IF answers
                   THEN /\ StorePut(jobId, handlerJob(req), "invoke")
                        /\ calls' = Append(calls, Call("handler", req, jobId, "stored", 0))
                        /\ UNCHANGED faults
                   ELSE /\ faults' = faults + 1
                        /\ calls' = Append(calls, Call("handler", req, jobId, "done", 500))
                        /\ UNCHANGED <<store, writers>>
    /\ UNCHANGED <<extMode, inflight, dispatched, workers, lastStatus, syncVars>>

handlerResume(i) ==
    /\ i \in 1..Len(calls)
    /\ calls[i].variant = "handler"
    /\ calls[i].pc = "stored"
    /\ inflight' = inflight \cup {calls[i].jobId}
    /\ dispatched' = dispatched \cup {calls[i].jobId}
    /\ calls' = [calls EXCEPT ![i].pc = "done", ![i].code = 202]
    /\ UNCHANGED <<store, writers, faults, extMode, workers, lastStatus, syncVars>>

(***************************************************************************)
(* The background worker,                                                  *)
(* netlify/functions/generate-report-process-background.js.  pc is the     *)
(* await the invocation is suspended at: "get" (reportStore.get), "fetch"  *)
(* (the generation service), "write" (setJSON of the completed record),    *)
(* "catch" (setJSON of the failed record); "done" when the handler has     *)
(* returned and "threw" when an exception has left it.                     *)
(***************************************************************************)
Worker(jobId, pc, scenario, gasType, report, message, origin) ==
    [jobId |-> jobId, pc |-> pc, scenario |-> scenario, gasType |-> gasType,
     report |-> report, message |-> message, origin |-> origin]

\* an invocation that has ended keeps none of its locals
Ended(wk, pc) == Worker(wk.jobId, pc, "", "", "", "", wk.origin)

\* control passes to the catch block with error.message = message
Caught(wk, message) == [wk EXCEPT !.pc = "catch", !.report = "", !.message = message]

WorkerTag(w) == "worker-" \o ToString(w)

\* const { jobId } = await req.json(), outside the try
backgroundStart(parses, jobId, origin) ==
    /\ Len(workers) < MaxWorkers
    /\ workers' = Append(workers,
                         IF parses
                         THEN Worker(jobId, "get", "", "", "", "", origin)
                         ELSE Worker(Undefined, "threw", "", "", "", "", origin))

\* the request the invoke endpoint sent reaches the background function
Deliver(jobId) ==
    /\ jobId \in inflight
    /\ inflight' = inflight \ {jobId}
    /\ backgroundStart(TRUE, jobId, "dispatch")
    /\ UNCHANGED <<store, writers, faults, extMode, calls, dispatched, lastStatus, syncVars>>

\* as LoseDispatch would be if the platform recorded the loss in the store
LoseDispatchRecorded(jobId) ==
    /\ jobId \in inflight
    /\ inflight' = inflight \ {jobId}
    /\ StorePut(jobId, [status |-> "failed", error |-> "dispatch failed"], "platform")
    /\ UNCHANGED <<faults, extMode, calls, dispatched, workers, lastStatus, syncVars>>

\* the request is never delivered
LoseDispatch(jobId) ==
    /\ jobId \in inflight
    /\ inflight' = inflight \ {jobId}
    /\ UNCHANGED <<store, writers, faults, extMode, calls, dispatched, workers, lastStatus, syncVars>>

\* any other POST to the background function: a repeated delivery for a
\* stored job, a job identifier that was never issued, or a body that is
\* not JSON
ExternalInvoke(parses, jobId) ==
    /\ jobId \in DOMAIN store \cup {ForeignId}
    /\ backgroundStart(parses, jobId, "external")
    /\ UNCHANGED <<store, writers, faults, extMode, calls, inflight, dispatched, lastStatus, syncVars>>

\* await reportStore.get(jobId, { type: "json" }) and the throw when it is null
backgroundGet(w) ==
    /\ w \in 1..Len(workers)
    /\ workers[w].pc = "get"
    /\ \E answers \in StoreAnswers :
          IF answers
          THEN LET jobData == StoreGet(workers[w].jobId)
               IN  /\ workers' = [workers EXCEPT ![w] =
                          IF jobData = NoRecord
                          THEN Caught(@, "Job " \o @.jobId \o " not found.")
                          ELSE [@ EXCEPT !.pc = "fetch",
                                         !.scenario = Prop(jobData, "scenario"),
                                         !.gasType = Prop(jobData, "gasType")]]
                   /\ UNCHANGED faults
          ELSE /\ workers' = [workers EXCEPT ![w] = Caught(@, StoreErrorMessage)]
               /\ faults' = faults + 1
    /\ UNCHANGED <<store, writers, extMode, calls, inflight, dispatched, lastStatus, syncVars>>

\* lines 114-189: the fetch, the two parses and the formatting, which run
\* without a further await once the response body has arrived, as a function
\* of what they read: the report (ok) or the message of the error thrown
Processed(o, scenario, gasType, rAge, rMonth, rDay, year) ==
    CASE o.kind = "throw"  -> [ok |-> FALSE, text |-> o.message]
      [] o.kind = "status" -> [ok |-> FALSE, text |-> "Google API Error: " \o o.status]
      [] o.kind = "notJson" ->
            [ok |-> FALSE, text |-> "Unexpected token < in JSON at position 0"]
      [] o.kind = "noCandidates" ->
            [ok |-> FALSE, text |-> "Cannot read properties of undefined (reading '0')"]
      [] OTHER ->
            IF o.form # "json"
            THEN [ok |-> FALSE, text |-> "Unexpected token in JSON at position 0"]
            ELSE IF scenario = Undefined
            THEN [ok |-> FALSE,
                  text |-> "Cannot read properties of undefined (reading 'match')"]
            ELSE [ok |-> TRUE,
                  text |-> formattedReport(o.obj, scenario, gasType,
                              getDobFromScenario(scenario, rAge, rMonth, rDay, year))]

\* the scenario and gasType a stored record can hold
StoredScenarios == {req.scenario : req \in Requests} \cup {Undefined}
StoredGasTypes == {req.gasType : req \in Requests} \cup {Undefined}

\* Processed on every input of the model
ProcessedAll ==
    { << <<o, scenario, gasType, r, year>>,
         Processed(o, scenario, gasType, r[1], r[2], r[3], year) >> :
        o \in Outcomes("any"), scenario \in StoredScenarios, gasType \in StoredGasTypes,
        r \in RandomDraws, year \in Years }

AfterFetch(wk, o, r, year) ==
    LET p == (CHOOSE e \in ProcessedAll :
                 e[1] = <<o, wk.scenario, wk.gasType, r, year>>)[2]
    IN  IF p.ok
        THEN [wk EXCEPT !.pc = "write", !.report = p.text]
        ELSE Caught(wk, p.text)

backgroundFetch(w) ==
    /\ w \in 1..Len(workers)
    /\ workers[w].pc = "fetch"
    /\ \E o \in Outcomes(extMode), r \in RandomDraws, year \in Years :
          workers' = [workers EXCEPT ![w] = AfterFetch(@, o, r, year)]
    /\ UNCHANGED <<store, writers, faults, extMode, calls, inflight, dispatched, lastStatus, syncVars>>

\* as CompletedJob would be if the finished record kept an error field
CompletedJobWithError(report) == [status |-> "completed", report |-> report, error |-> ""]

\* the record saved for a finished report
CompletedJob(report) == [status |-> "completed", report |-> report]

\* as FailedJob would be without the fallback message
FailedJobAsThrown(message) == [status |-> "failed", error |-> message]

\* the record saved by the catch block
FailedJob(message) ==
    [status |-> "failed",
     error |-> OrElse(message, "An unknown error occurred in the background task.")]

\* lines 193-196: await reportStore.setJSON(jobId, {status: "completed", ...})
backgroundWrite(w) ==
    /\ w \in 1..Len(workers)
    /\ workers[w].pc = "write"
    /\ \E answers \in StoreAnswers :
          IF answers
          THEN /\ StorePut(workers[w].jobId, CompletedJob(workers[w].report), WorkerTag(w))
               /\ workers' = [workers EXCEPT ![w] = Ended(@, "done")]
               /\ UNCHANGED faults
          ELSE /\ workers' = [workers EXCEPT ![w] = Caught(@, StoreErrorMessage)]
               /\ faults' = faults + 1
               /\ UNCHANGED <<store, writers>>
    /\ UNCHANGED <<extMode, calls, inflight, dispatched, lastStatus, syncVars>>

\* lines 198-205: the catch block; a setJSON that rejects here is not caught
backgroundCatch(w) ==
    /\ w \in 1..Len(workers)
    /\ workers[w].pc = "catch"
    /\ \E answers \in StoreAnswers :
          IF answers
          THEN /\ StorePut(workers[w].jobId, FailedJob(workers[w].message), WorkerTag(w))
               /\ workers' = [workers EXCEPT ![w] = Ended(@, "done")]
               /\ UNCHANGED faults
          ELSE /\ workers' = [workers EXCEPT ![w] = Ended(@, "threw")]
               /\ faults' = faults + 1
               /\ UNCHANGED <<store, writers>>
    /\ UNCHANGED <<extMode, calls, inflight, dispatched, lastStatus, syncVars>>

(***************************************************************************)
(* The status endpoint, src/unnamed/part_005                               *)
(* (path /.netlify/functions/get-report-status).                           *)
(***************************************************************************)
\* the number of writes a key has taken
KeyWrites(key) == IF key \in DOMAIN writers THEN Len(writers[key]) ELSE 0

\* whether this request repeats the one answered last
Repeats(jobId) ==
    /\ lastStatus.code # 0
    /\ lastStatus.jobId = jobId
    /\ lastStatus.keyWrites = KeyWrites(jobId)

\* as StatusResponse would be without the test of jobData
StatusResponseUnchecked(jobId, answers) ==
    IF Falsy(jobId)
    THEN [code |-> 400, body |-> [error |-> "Job ID is required."]]
    ELSE IF ~answers
    THEN [code |-> 500, body |-> [error |-> "Failed to get report status."]]
    ELSE [code |-> 200, body |-> StoreGet(jobId)]

\* the response to a request with this jobId ('' when the query has none),
\* given whether the store answers
StatusResponse(jobId, answers) ==
    IF Falsy(jobId)
    THEN [code |-> 400, body |-> [error |-> "Job ID is required."]]
    ELSE IF ~answers
    THEN [code |-> 500, body |-> [error |-> "Failed to get report status."]]
    ELSE IF StoreGet(jobId) = NoRecord
    THEN [code |-> 404, body |-> [error |-> "Job not found."]]
    ELSE [code |-> 200, body |-> StoreGet(jobId)]

\* as getReportStatus would be if it stamped the record it has read
getReportStatusStamping(jobId) ==
    /\ \E answers \in (IF Falsy(jobId) THEN {TRUE} ELSE StoreAnswers) :
          LET r == StatusResponse(jobId, answers)
          IN  /\ lastStatus' = [jobId |-> jobId, code |-> r.code, body |-> r.body,
                                keyWrites |-> KeyWrites(jobId),
                                repeat |-> Repeats(jobId)]
              /\ faults' = IF answers THEN faults ELSE faults + 1
              /\ IF r.code = 200
                 THEN store' = [store EXCEPT ![jobId] =
                                   [f \in DOMAIN @ \cup {"polled"} |->
                                       IF f = "polled" THEN "yes" ELSE @[f]]]
                 ELSE UNCHANGED store
    /\ UNCHANGED <<writers, extMode, calls, inflight, dispatched, workers, syncVars>>

getReportStatus(jobId) ==
    /\ \E answers \in (IF Falsy(jobId) THEN {TRUE} ELSE StoreAnswers) :
          LET r == StatusResponse(jobId, answers)
          IN  /\ lastStatus' = [jobId |-> jobId, code |-> r.code, body |-> r.body,
                                keyWrites |-> KeyWrites(jobId),
                                repeat |-> Repeats(jobId)]
              /\ faults' = IF answers THEN faults ELSE faults + 1
    /\ UNCHANGED <<store, writers, extMode, calls, inflight, dispatched, workers, syncVars>>

\* job identifiers a client may ask about
StatusInputs == {"", ForeignId} \cup {Uuid(n) : n \in 1..MaxCalls}

(***************************************************************************)
(* Specifications.                                                         *)
(***************************************************************************)
WorkerStep ==
    \E w \in 1..MaxWorkers :
        backgroundGet(w) \/ backgroundFetch(w) \/ backgroundWrite(w) \/ backgroundCatch(w)

\* Every operation that writes, with every request body: the endpoints are
\* public, so the background function is also invoked by others than the
\* invoke endpoint (ExternalInvoke).
Next ==
    \/ \E req \in Requests : generateReportInvoke(req)
    \/ \E i \in 1..MaxCalls : generateReportInvokeResume(i)
    \/ \E req \in Requests : reportGenerationInvoker(req)
    \/ \E i \in 1..MaxCalls : reportGenerationInvokerResume(i)
    \/ \E req \in Requests : handler(req)
    \/ \E i \in 1..MaxCalls : handlerResume(i)
    \/ \E jobId \in dispatched : Deliver(jobId)
    \/ \E jobId \in dispatched : LoseDispatch(jobId)
    \/ \E parses \in BOOLEAN, jobId \in DOMAIN store \cup {ForeignId} :
          ExternalInvoke(parses, jobId)
    \/ WorkerStep

Spec == Init /\ [][Next]_vars

\* The deployed endpoints as anyone can call them, with well-formed bodies:
NextOpen ==
    \/ \E req \in ValidRequests : generateReportInvoke(req)
    \/ \E i \in 1..MaxCalls : generateReportInvokeResume(i)
    \/ \E jobId \in dispatched : Deliver(jobId)
    \/ \E jobId \in DOMAIN store \cup {ForeignId} : ExternalInvoke(TRUE, jobId)
    \/ WorkerStep
    \/ \E jobId \in StatusInputs : getReportStatus(jobId)

SpecOpen == Init /\ [][NextOpen]_vars

\* The intended flow: the background function is invoked only by the
\* request the invoke endpoint dispatched.  Without the status endpoint:
NextJobs ==
    \/ \E req \in Requests : generateReportInvoke(req)
    \/ \E i \in 1..MaxCalls : generateReportInvokeResume(i)
    \/ \E req \in Requests : reportGenerationInvoker(req)
    \/ \E i \in 1..MaxCalls : reportGenerationInvokerResume(i)
    \/ \E req \in Requests : handler(req)
    \/ \E i \in 1..MaxCalls : handlerResume(i)
    \/ \E jobId \in dispatched : Deliver(jobId)
    \/ \E jobId \in dispatched : LoseDispatch(jobId)
    \/ WorkerStep

SpecJobs == Init /\ [][NextJobs]_vars

\* and with it, for the jobs of well-formed requests:
NextPoll ==
    \/ \E req \in ValidRequests : generateReportInvoke(req)
    \/ \E i \in 1..MaxCalls : generateReportInvokeResume(i)
    \/ \E jobId \in dispatched : Deliver(jobId)
    \/ WorkerStep
    \/ \E jobId \in StatusInputs : getReportStatus(jobId)

SpecPoll == Init /\ [][NextPoll]_vars

\* The same with a job that was created before the run: its record is in
\* the store and the request that createJob sent for it is still in flight.
\* The generation service is well-behaved for the whole run,
\* and the clients poll the jobs that exist.
EarlierId == Uuid(0)

InitFrame ==
    /\ \E timestamp \in Timestamps :
          store = [k \in {EarlierId} |->
                      JsonObject(InitialJob([parses |-> TRUE, scenario |-> ShortScenario,
                                             gasType |-> "Venous"], timestamp))]
    /\ writers = [k \in {EarlierId} |-> <<"invoke">>]
    /\ faults = 0
    /\ extMode = "wellformed"
    /\ calls = <<>>
    /\ inflight = {EarlierId}
    /\ dispatched = {EarlierId}
    /\ workers = <<>>
    /\ lastStatus = NoStatus
    /\ retry = NoRetry
    /\ parser = NoParser
    /\ formatter = NoFormatter
    /\ gasCall = NoGasCall

NextFrame ==
    \/ \E req \in ValidRequests : generateReportInvoke(req)
    \/ \E i \in 1..MaxCalls : generateReportInvokeResume(i)
    \/ \E jobId \in dispatched : Deliver(jobId)
    \/ WorkerStep
    \/ \E jobId \in DOMAIN store : getReportStatus(jobId)

SpecFrame == InitFrame /\ [][NextFrame]_vars

\* A client that polls the jobs it was given, against a generation service
\* that is either well-behaved or unreachable for the whole run.
InitLive ==
    /\ store = [k \in {} |-> NoRecord]
    /\ writers = [k \in {} |-> <<>>]
    /\ faults = 0
    /\ extMode \in {"wellformed", "netfail"}
    /\ calls = <<>>
    /\ inflight = {}
    /\ dispatched = {}
    /\ workers = <<>>
    /\ gasCall = NoGasCall
    /\ lastStatus = NoStatus
    /\ retry = NoRetry
    /\ parser = NoParser
    /\ formatter = NoFormatter

\* the client's poll of the n-th job, once it has the jobId
Poll(n) ==
    /\ Uuid(n) \in {calls[i].jobId : i \in {k \in 1..Len(calls) : calls[k].code = 202}}
    /\ getReportStatus(Uuid(n))

NextLive ==
    \/ \E req \in ValidRequests : generateReportInvoke(req)
    \/ \E i \in 1..MaxCalls : generateReportInvokeResume(i)
    \/ \E jobId \in dispatched : Deliver(jobId)
    \/ WorkerStep
    \/ \E n \in 1..MaxCalls : Poll(n)

\* Every handler that has started runs to its end, every dispatched request
\* is delivered, and the client keeps polling each job: the polls whose read
\* of the store throws are finitely many, so a poll that is answered comes.
SpecLive ==
    /\ InitLive
    /\ [][NextLive]_vars
    /\ WF_vars(\E i \in 1..MaxCalls : generateReportInvokeResume(i))
    /\ WF_vars(\E jobId \in dispatched : Deliver(jobId))
    /\ WF_vars(WorkerStep)
    /\ \A n \in 1..MaxCalls : WF_vars(Poll(n) /\ faults' = faults)

(***************************************************************************)
(* The retrying request wrappers of the synchronous handlers:              *)
(* fetchWithRetry(url, payload, maxRetries = 3) and the handler that calls *)
(* it, makeApiCall(retryCount = 0) and the handler that calls it.  One     *)
(* invocation is followed request by request: each await of fetch is a     *)
(* step whose answer the service chooses, each backoff wait is a step.     *)
(***************************************************************************)
\* what one request comes to: a response with this status, or a rejection
\* of fetch (a network failure)
Ok == "200"
TooManyRequests == "429"
Reject == "reject"
Responses == {Ok, TooManyRequests, "400", "500", Reject}

\* the values of the maxRetries argument: 1..MaxRetriesArg
MaxRetriesArg == 4
DefaultMaxRetries == 3
InitialDelay == 1000
RetryLimit == 5
BaseDelay == 1000
\* Math.random() * 1000, to the millisecond
Jitters == {0, 999}

RECURSIVE Pow2(_)
Pow2(n) == IF n = 0 THEN 1 ELSE 2 * Pow2(n - 1)

\* an invocation before its first request; attempt is retryCount in
\* makeApiCall.  log and waits are history: the answers of the requests
\* made and the delays waited, in order.
RetryStart(fn, maxRetries) ==
    [fn |-> fn, maxRetries |-> maxRetries, attempt |-> 0, delay |-> InitialDelay,
     pc |-> "fetch", log |-> <<>>, waits |-> <<>>, result |-> "", answer |-> ""]

LoopContinuesOnceMore(attempt, maxRetries) == attempt <= maxRetries

\* while (attempt < maxRetries)
LoopContinues(attempt, maxRetries) == attempt < maxRetries

RetriedStatusAnyFailure(status) == status # Ok

\* response.status === 429
RetriedStatus(status) == status = TooManyRequests

\* as BackOff would be if the delay were not doubled
BackOffConstantDelay(r) ==
    [r EXCEPT !.waits = Append(@, r.delay), !.attempt = @ + 1]

BackOffSkipped(r) == [r EXCEPT !.delay = 2 * @, !.attempt = @ + 1]

\* await new Promise(res => setTimeout(res, delay)); delay *= 2; attempt++
BackOff(r) ==
    [r EXCEPT !.waits = Append(@, r.delay), !.delay = 2 * @, !.attempt = @ + 1]

\* as fetchWithRetryFetch would be if the catch never re-threw
fetchWithRetryFetchSwallowing(o) ==
    /\ retry.fn = "fetchWithRetry"
    /\ retry.pc = "fetch"
    /\ LET r == [retry EXCEPT !.log = Append(@, o)] IN
       retry' =
           IF o = Reject
           THEN [r EXCEPT !.pc = "wait"]
           ELSE IF o = Ok
                THEN [r EXCEPT !.pc = "returned", !.result = "response"]
                ELSE IF RetriedStatus(o)
                     THEN [r EXCEPT !.pc = "wait"]
                     ELSE [r EXCEPT !.pc = "returned", !.result = "response"]
    /\ UNCHANGED <<jobVars, parser, formatter, gasCall>>

\* one pass of the loop body up to its await of the timer, or to its return
\* or throw
fetchWithRetryFetch(o) ==
    /\ retry.fn = "fetchWithRetry"
    /\ retry.pc = "fetch"
    /\ LET r == [retry EXCEPT !.log = Append(@, o)] IN
       retry' =
           IF o = Reject
           THEN IF r.attempt >= r.maxRetries - 1
                THEN [r EXCEPT !.pc = "returned", !.result = "rejected"]
                ELSE [r EXCEPT !.pc = "wait"]
           ELSE IF o = Ok
                THEN [r EXCEPT !.pc = "returned", !.result = "response"]
                ELSE IF RetriedStatus(o)
                     THEN [r EXCEPT !.pc = "wait"]
                     ELSE [r EXCEPT !.pc = "returned", !.result = "response"]
    /\ UNCHANGED <<jobVars, parser, formatter, gasCall>>

\* the timer fires: the rest of the loop body and the loop condition
fetchWithRetryWait ==
    /\ retry.fn = "fetchWithRetry"
    /\ retry.pc = "wait"
    /\ LET r == BackOff(retry) IN
       retry' = IF LoopContinues(r.attempt, r.maxRetries)
                THEN [r EXCEPT !.pc = "fetch"]
                ELSE [r EXCEPT !.pc = "returned", !.result = "null"]
    /\ UNCHANGED <<jobVars, parser, formatter, gasCall>>

\* the handler around it: !dataResponse || !dataResponse.ok throws, and
\* what is thrown is answered 500; otherwise the handler goes on to parse
fetchWithRetryCaller ==
    /\ retry.fn = "fetchWithRetry"
    /\ retry.pc = "returned"
    /\ retry' = [retry EXCEPT
                    !.pc = "answered",
                    !.answer = IF retry.result = "response"
                                  /\ retry.log[Len(retry.log)] = Ok
                               THEN "parses"
                               ELSE "500"]
    /\ UNCHANGED <<jobVars, parser, formatter, gasCall>>

\* makeApiCall(retryCount) up to its await of the timer, or to its return
\* or throw; the fetch is not in a try block
makeApiCallFetch(o) ==
    /\ retry.fn = "makeApiCall"
    /\ retry.pc = "fetch"
    /\ LET r == [retry EXCEPT !.log = Append(@, o)] IN
       retry' =
           IF o = Reject
           THEN [r EXCEPT !.pc = "returned", !.result = "rejected"]
           ELSE IF RetriedStatus(o) /\ r.attempt < RetryLimit
                THEN [r EXCEPT !.pc = "wait"]
                ELSE IF o # Ok
                     THEN [r EXCEPT !.pc = "returned", !.result = "error"]
                     ELSE [r EXCEPT !.pc = "returned", !.result = "json"]
    /\ UNCHANGED <<jobVars, parser, formatter, gasCall>>

\* the timer fires: return makeApiCall(retryCount + 1)
makeApiCallWait(jitter) ==
    /\ retry.fn = "makeApiCall"
    /\ retry.pc = "wait"
    /\ retry' = [retry EXCEPT
                    !.waits = Append(@, Pow2(retry.attempt) * BaseDelay + jitter),
                    !.attempt = @ + 1,
                    !.pc = "fetch"]
    /\ UNCHANGED <<jobVars, parser, formatter, gasCall>>

\* the handler around it: what makeApiCall throws is answered 500;
\* otherwise the handler goes on to extract the JSON
makeApiCallCaller ==
    /\ retry.fn = "makeApiCall"
    /\ retry.pc = "returned"
    /\ retry' = [retry EXCEPT
                    !.pc = "answered",
                    !.answer = IF retry.result = "json" THEN "parses" ELSE "500"]
    /\ UNCHANGED <<jobVars, parser, formatter, gasCall>>

\* One invocation of either wrapper, against any service.
InitRetry ==
    /\ store = [k \in {} |-> NoRecord]
    /\ writers = [k \in {} |-> <<>>]
    /\ faults = 0
    /\ extMode = "any"
    /\ calls = <<>>
    /\ inflight = {}
    /\ dispatched = {}
    /\ workers = <<>>
    /\ gasCall = NoGasCall
    /\ lastStatus = NoStatus
    /\ parser = NoParser
    /\ formatter = NoFormatter
    /\ retry \in {RetryStart("fetchWithRetry", m) :
                     m \in 1..MaxRetriesArg \cup {DefaultMaxRetries}}
                 \cup {RetryStart("makeApiCall", 0)}

NextRetry ==
    \/ \E o \in Responses : fetchWithRetryFetch(o)
    \/ fetchWithRetryWait
    \/ fetchWithRetryCaller
    \/ \E o \in Responses : makeApiCallFetch(o)
    \/ \E jitter \in Jitters : makeApiCallWait(jitter)
    \/ makeApiCallCaller

SpecRetry == InitRetry /\ [][NextRetry]_vars

\* Every request settles and every timer fires.
SpecRetryLive == InitRetry /\ [][NextRetry]_vars /\ WF_vars(NextRetry)

(***************************************************************************)
(* The response parsers: safeParseModelJson with stripCodeFences and       *)
(* extractFirstJsonObject, and the JSON extraction written out in the      *)
(* gas-report handler.  A parsed value is held as its JSON text without    *)
(* insignificant white space.                                              *)
(***************************************************************************)
CharAt(s, p) == IF p \in 1..Len(s) THEN Char(s, p) ELSE ""

Quote == "\""
\* a string cannot hold a backtick: it is written as an apostrophe, which
\* the texts of the model do not hold otherwise
Backtick == "'"
Fence == Backtick \o Backtick \o Backtick

IsLetter(c) == c # "" /\ (IndexOf(LowerCase, c) # 0 \/ IndexOf(UpperCase, c) # 0)

\* s.startsWith(prefix), s.endsWith(suffix)
startsWith(s, prefix) ==
    Len(s) >= Len(prefix) /\ SubSeq(s, 1, Len(prefix)) = prefix
endsWith(s, suffix) ==
    Len(s) >= Len(suffix) /\ SubSeq(s, Len(s) - Len(suffix) + 1, Len(s)) = suffix

\* s.trim()
trim(s) ==
    LET first == SkipSpace(s, 1)
        last == CHOOSE q \in 0..Len(s) :
                    /\ \A k \in (q + 1)..Len(s) : IsSpace(Char(s, k))
                    /\ q = 0 \/ ~IsSpace(Char(s, q))
    IN  IF first > last THEN "" ELSE SubSeq(s, first, last)

\* a failed parse, and a parse that read a value up to position end - 1
NoParse == [end |-> 0, json |-> ""]
Parsed(end, json) == [end |-> end, json |-> json]

\* a JSON string without escapes, from its opening quote at p
jsonString(s, p) ==
    IF CharAt(s, p) # Quote \/ ~\E q \in (p + 1)..Len(s) : Char(s, q) = Quote
    THEN NoParse
    ELSE LET q == CHOOSE q \in (p + 1)..Len(s) :
                     /\ Char(s, q) = Quote
                     /\ \A k \in (p + 1)..(q - 1) : Char(s, k) # Quote
         IN  IF \E k \in (p + 1)..(q - 1) : Char(s, k) \in {"\\", "\n", "\t"}
             THEN NoParse
             ELSE Parsed(q + 1, SubSeq(s, p, q))

\* a JSON number made of digits, from its first digit at p
jsonNumber(s, p) ==
    LET q == CHOOSE q \in p..(Len(s) + 1) :
                 /\ \A k \in p..(q - 1) : IsDigit(Char(s, k))
                 /\ ~IsDigit(CharAt(s, q))
    IN  IF q = p \/ (q > p + 1 /\ Char(s, p) = "0")
        THEN NoParse
        ELSE Parsed(q, SubSeq(s, p, q - 1))

\* a JSON value from position p: an object, a string or a number
RECURSIVE jsonValue(_, _)
RECURSIVE jsonMembers(_, _)
jsonValue(s, p) ==
    IF CharAt(s, p) = "{"
    THEN LET q == SkipSpace(s, p + 1)
         IN  IF CharAt(s, q) = "}"
             THEN Parsed(q + 1, "{}")
             ELSE LET m == jsonMembers(s, q)
                  IN  IF m.end # 0 /\ CharAt(s, m.end) = "}"
                      THEN Parsed(m.end + 1, "{" \o m.json \o "}")
                      ELSE NoParse
    ELSE IF CharAt(s, p) = Quote THEN jsonString(s, p)
    ELSE IF IsDigit(CharAt(s, p)) /\ CharAt(s, p) # "" THEN jsonNumber(s, p)
    ELSE NoParse

\* the members of an object from the first key at p, up to the closing brace
jsonMembers(s, p) ==
    LET key == jsonString(s, p)
        colon == SkipSpace(s, key.end)
        value == jsonValue(s, SkipSpace(s, colon + 1))
        next == SkipSpace(s, value.end)
        rest == jsonMembers(s, SkipSpace(s, next + 1))
    IN  IF key.end = 0 \/ CharAt(s, colon) # ":" THEN NoParse
        ELSE IF value.end = 0 THEN NoParse
        ELSE IF CharAt(s, next) = ","
             THEN IF rest.end = 0 THEN NoParse
                  ELSE Parsed(rest.end, key.json \o ":" \o value.json \o "," \o rest.json)
             ELSE Parsed(next, key.json \o ":" \o value.json)

\* what a parser hands back: the value, or the message of what it throws
Value(json) == [ok |-> TRUE, value |-> json]
Thrown(message) == [ok |-> FALSE, value |-> message]

\* JSON.parse(text), for texts whose values are objects, strings without
\* escapes and numbers made of digits
JSONparse(text) ==
    LET v == jsonValue(text, SkipSpace(text, 1))
    IN  IF v.end # 0 /\ SkipSpace(text, v.end) = Len(text) + 1
        THEN Value(v.json)
        ELSE Thrown("Unexpected token in JSON")

\* t.replace(/^```[a-zA-Z]*\n?/, '') of a t that starts with the fence
dropOpeningFence(t) ==
    LET q == CHOOSE q \in 4..(Len(t) + 1) :
                 /\ \A k \in 4..(q - 1) : IsLetter(Char(t, k))
                 /\ ~IsLetter(CharAt(t, q))
        r == IF CharAt(t, q) = "\n" THEN q + 1 ELSE q
    IN  SubSeq(t, r, Len(t))

\* t.replace(/```\s*$/, '')
dropClosingFence(t) ==
    LET at == {i \in 1..(Len(t) - 2) :
                  /\ SubSeq(t, i, i + 2) = Fence
                  /\ \A k \in (i + 3)..Len(t) : IsSpace(Char(t, k))}
    IN  IF at = {} THEN t
        ELSE SubSeq(t, 1, (CHOOSE i \in at : \A k \in at : i <= k) - 1)

stripCodeFences(s) ==
    IF Falsy(s) THEN ""
    ELSE LET t == trim(s)
         IN  IF startsWith(t, Fence)
             THEN trim(dropClosingFence(dropOpeningFence(t)))
             ELSE t

\* the for loop of extractFirstJsonObject from index i; start is 0 for -1
RECURSIVE scanBraces(_, _, _, _)
scanBraces(s, i, depth, start) ==
    IF i > Len(s) THEN ""
    ELSE IF Char(s, i) = "{"
         THEN scanBraces(s, i + 1, depth + 1, IF depth = 0 THEN i ELSE start)
    ELSE IF Char(s, i) = "}"
         THEN IF depth - 1 = 0 /\ start # 0
              THEN SubSeq(s, start, i)
              ELSE scanBraces(s, i + 1, depth - 1, start)
    ELSE scanBraces(s, i + 1, depth, start)

\* null is returned as '', which is as falsy and is no slice
extractFirstJsonObject(s) == scanBraces(s, 1, 0, 0)

SnippetLength == 240

\* String(text).slice(0, 240), inside the message of the error
MalformedResponse(text) ==
    Thrown("Model did not return valid JSON. Starts with: "
             \o SubSeq(text, 1, IF Len(text) < SnippetLength THEN Len(text)
                                ELSE SnippetLength))

safeParseModelJson(text) ==
    LET raw == stripCodeFences(text)
        candidate == extractFirstJsonObject(raw)
    IN  IF JSONparse(raw).ok THEN JSONparse(raw)
        ELSE IF candidate # "" /\ JSONparse(candidate).ok THEN JSONparse(candidate)
        ELSE MalformedResponse(text)

\* rawJson.replace(/^```(?:json)?\s*/i, '') of a rawJson that starts with
\* the fence
dropJsonFence(rawJson) ==
    LET q == IF ToLower(SubSeq(rawJson, 4, IF Len(rawJson) < 7 THEN Len(rawJson) ELSE 7))
                  = "json"
             THEN 8 ELSE 4
    IN  SubSeq(rawJson, SkipSpace(rawJson, q), Len(rawJson))

\* rawJson.replace(/```$/, '')
dropFenceAtEnd(rawJson) ==
    IF endsWith(rawJson, Fence) THEN SubSeq(rawJson, 1, Len(rawJson) - 3) ELSE rawJson

\* rawJson.match(/\{[\s\S]*\}/): from the first { to the last }, '' for no
\* match
matchBraces(rawJson) ==
    LET opens == {i \in 1..Len(rawJson) : Char(rawJson, i) = "{"}
        first == CHOOSE i \in opens : \A k \in opens : i <= k
        closes == {j \in 1..Len(rawJson) : Char(rawJson, j) = "}" /\ j > first}
        last == CHOOSE j \in closes : \A k \in closes : j >= k
    IN  IF opens = {} THEN ""
        ELSE IF closes = {} THEN ""
        ELSE SubSeq(rawJson, first, last)

\* lines 190-206 of the gas-report handler, on the text of the first part
jsonExtraction(content) ==
    LET trimmed == trim(content)
        rawJson == IF startsWith(trimmed, Fence)
                   THEN trim(dropFenceAtEnd(dropJsonFence(trimmed)))
                   ELSE trimmed
    IN  IF trimmed = "" THEN Thrown("Empty response from model.")
        ELSE IF startsWith(rawJson, "{") THEN JSONparse(rawJson)
        ELSE IF matchBraces(rawJson) = ""
             THEN Thrown("No valid JSON object found in the API response.")
             ELSE JSONparse(matchBraces(rawJson))


(***************************************************************************)
(* Model texts, each with the JSON object it carries ('' when it carries   *)
(* none), and the two parsers applied to one of them.                      *)
(***************************************************************************)
\* objects nested up to MaxNesting deep
MaxNesting == 2

\* an object of the given nesting as the model may lay it out, and its JSON
\* text without insignificant white space
RECURSIVE Nested(_)
Nested(n) ==
    IF n = 0
    THEN [text |-> "{\"ph\": \"7.35\"}", json |-> "{\"ph\":\"7.35\"}"]
    ELSE [text |-> "{ \"o\" : " \o Nested(n - 1).text \o ",\n  \"k\":41 }",
          json |-> "{\"o\":" \o Nested(n - 1).json \o ",\"k\":41}"]

Objects == {[text |-> "{}", json |-> "{}"]} \cup {Nested(n) : n \in 0..MaxNesting}

LanguageTags == {"", "json", "JSON", "js"}

ModelText(form, text, object) == [form |-> form, text |-> text, object |-> object]

PureTexts == {ModelText("json", o.text, o.json) : o \in Objects}
FencedTexts ==
    {ModelText("fenced", Fence \o tag \o "\n" \o o.text \o "\n" \o Fence, o.json) :
        o \in Objects, tag \in LanguageTags}
ProseTexts ==
    {ModelText("prose", "Sure! " \o o.text \o " Hope that helps.", o.json) :
        o \in Objects}
NoObjectTexts ==
    {ModelText("none", t, "") :
        t \in {"not json at all", "", "42", "\"hello\"", "{not json}",
               Fence \o "\nnot json\n" \o Fence}}

ModelTexts == PureTexts \cup FencedTexts \cup ProseTexts \cup NoObjectTexts

NotApplied == [ok |-> FALSE, value |-> Undefined]

\* generateReportJSON, line 295: return safeParseModelJson(text)
generateReportJSON ==
    /\ parser.fn = "parse"
    /\ parser.safe = NotApplied
    /\ parser' = [parser EXCEPT !.safe = safeParseModelJson(parser.text)]
    /\ UNCHANGED <<jobVars, retry, formatter, gasCall>>

\* the gas-report handler, lines 190-206
gasReportExtraction ==
    /\ parser.fn = "parse"
    /\ parser.inline = NotApplied
    /\ parser' = [parser EXCEPT !.inline = jsonExtraction(parser.text)]
    /\ UNCHANGED <<jobVars, retry, formatter, gasCall>>

InitParse ==
    /\ store = [k \in {} |-> NoRecord]
    /\ writers = [k \in {} |-> <<>>]
    /\ faults = 0
    /\ extMode = "any"
    /\ calls = <<>>
    /\ inflight = {}
    /\ dispatched = {}
    /\ workers = <<>>
    /\ gasCall = NoGasCall
    /\ lastStatus = NoStatus
    /\ retry = NoRetry
    /\ formatter = NoFormatter
    /\ parser \in {[fn |-> "parse", form |-> t.form, text |-> t.text, object |-> t.object,
                    safe |-> NotApplied, inline |-> NotApplied] : t \in ModelTexts}

NextParse ==
    \/ generateReportJSON
    \/ gasReportExtraction

SpecParse == InitParse /\ [][NextParse]_vars

(***************************************************************************)
(* The reports of the synchronous handlers.  First the handler that calls  *)
(* fetchWithRetry: its formatLine, its wordWrap and its report (lines      *)
(* 46-70 and 129-187); explanationText is the text of its second request.  *)
(***************************************************************************)
\* (String(value) || '').padEnd(12, ' '): String(undefined) is 'undefined'
formatLineString(label, value, unit, reference) ==
    padEnd(label, 18) \o padEnd(value, 12) \o padEnd(unit, 11) \o reference \o "\n"

\* text.replace(/\s+/g, ' ') from position i, after a blank or not
RECURSIVE collapse(_, _, _)
collapse(text, i, afterSpace) ==
    IF i > Len(text) THEN ""
    ELSE IF IsSpace(Char(text, i))
         THEN (IF afterSpace THEN "" ELSE " ") \o collapse(text, i + 1, TRUE)
         ELSE Char(text, i) \o collapse(text, i + 1, FALSE)

\* the for loop of this wordWrap and the push that follows it
RECURSIVE wrapRest(_, _, _, _)
wrapRest(words, maxWidth, currentLine, lines) ==
    IF words = <<>> THEN Append(lines, currentLine)
    ELSE IF Len(currentLine \o " " \o Head(words)) > maxWidth
         THEN wrapRest(Tail(words), maxWidth, Head(words), Append(lines, currentLine))
         ELSE wrapRest(Tail(words), maxWidth, currentLine \o " " \o Head(words), lines)

wordWrapSanitized(text, maxWidth) ==
    LET words == split(trim(collapse(text, 1, FALSE)))
    IN  wrapRest(Tail(words), maxWidth, Head(words), <<>>)

\* c.repeat(n)
RECURSIVE repeat(_, _)
repeat(c, n) == IF n <= 0 THEN "" ELSE c \o repeat(c, n - 1)

boxWidth == 60
contentWidth == boxWidth - 4

RECURSIVE boxedLines(_, _)
boxedLines(lines, width) ==
    IF lines = <<>> THEN ""
    ELSE "| " \o padEnd(Head(lines), width) \o " |\n" \o boxedLines(Tail(lines), width)

\* the reference ranges are those of an arterial sample whatever gasType is
combinedReport(reportData, scenario, gasType, explanationText) ==
    "                            Blood Gas\n"
    \o "                          Emergency Department\n"
    \o Rule
    \o "Patient ID:         " \o OrElse(Prop(reportData, "patientId"), "") \o "\n"
    \o "Last Name           " \o OrElse(Prop(reportData, "lastName"), "") \o "\n"
    \o "First Name          " \o OrElse(Prop(reportData, "firstName"), "") \o "\n"
    \o "Temperature         " \o OrElse(Prop(reportData, "temperature"), "") \o " o C\n"
    \o "FIO2                " \o OrElse(Prop(reportData, "fio2"), "") \o "\n"
    \o "R                   " \o OrElse(Prop(reportData, "r"), "") \o "\n"
    \o "Sample type         Blood\n"
    \o "Blood Type          " \o gasType \o "\n"
    \o Rule
    \o formatLineString("pH", Prop(reportData, "ph"), "", "(7.350 - 7.450)")
    \o formatLineString("PCO2", Prop(reportData, "pco2"), "kPa", "(4.67 - 6.00)")
    \o formatLineString("PO2", Prop(reportData, "po2"), "kPa", "(10.67 - 13.33)")
    \o Rule
    \o formatLineString("Na+", Prop(reportData, "na"), "mmol/L", "(135.0 - 148.0)")
    \o formatLineString("K+", Prop(reportData, "k"), "mmol/L", "(3.50 - 4.50)")
    \o formatLineString("Cl-", Prop(reportData, "cl"), "mmol/L", "(98.0 - 107.0)")
    \o formatLineString("Ca2+", Prop(reportData, "ca"), "mmol/L", "(1.120 - 1.320)")
    \o Rule
    \o formatLineString("HCT", Prop(reportData, "hct"), "%", "(35.0 - 50.0)")
    \o Rule
    \o formatLineString("Glucose", Prop(reportData, "glucose"), "mmol/L", "(3.3 - 6.1)")
    \o formatLineString("Lactate", Prop(reportData, "lactate"), "mmol/L", "(0.4 - 2.2)")
    \o Rule
    \o formatLineString("tHb", Prop(reportData, "thb"), "g/dL", "(11.5 - 17.4)")
    \o formatLineString("O2 Hb", Prop(reportData, "o2hb"), "%", "(95.0 - 99.0)")
    \o formatLineString("COHb", Prop(reportData, "cohb"), "%", "(0.5 - 2.5)")
    \o formatLineString("HHb", Prop(reportData, "hhb"), "%", "(1.0 - 5.0)")
    \o formatLineString("MetHb", Prop(reportData, "methb"), "%", "(0.4 - 1.5)")
    \o Rule
    \o formatLineString("BE", Prop(reportData, "be"), "mmol/L", "(-2.3 - 2.3)")
    \o formatLineString("cHCO3", Prop(reportData, "chco3"), "mmol/L", "")
    \o formatLineString("AaDO2", Prop(reportData, "aado2"), "kPa", "")
    \o formatLineString("SO2", Prop(reportData, "so2"), "%", "(75.0 - 99.0)")
    \o formatLineString("cHCO3 st", Prop(reportData, "chco3st"), "mmol/L", "(22.4 - 25.8)")
    \o formatLineString("P50", Prop(reportData, "p50"), "kPa", "")
    \o formatLineString("ctO2", Prop(reportData, "cto2"), "Vol %", "")
    \o "\n\n"
    \o "+" \o repeat("-", boxWidth - 2) \o "+\n"
    \o "| " \o padEnd("Explanation for Instructors", boxWidth - 3) \o "|\n"
    \o "+" \o repeat("-", boxWidth - 2) \o "+\n"
    \o boxedLines(wordWrapSanitized("Scenario: " \o scenario, contentWidth), contentWidth)
    \o "| " \o repeat(" ", contentWidth) \o " |\n"
    \o boxedLines(wordWrapSanitized(explanationText, contentWidth), contentWidth)
    \o "+" \o repeat("-", boxWidth - 2) \o "+\n"

(***************************************************************************)
(* The gas-report handler: its numbers, its laws and its report.  A        *)
(* JavaScript number is held in hundredths; the numbers of the model have  *)
(* at most two decimals.                                                   *)
(***************************************************************************)
Number(h) == [t |-> "number", h |-> h]
NaN == [t |-> "NaN", h |-> 0]
Null == [t |-> "null", h |-> 0]
Undef == [t |-> "undefined", h |-> 0]

IsNumber(n) == n.t = "number"

\* whether text is digits, or digits, a point and one or two digits
IsDecimal(text) ==
    LET point == IndexOf(text, ".")
        whole == IF point = 0 THEN text ELSE SubSeq(text, 1, point - 1)
        frac == IF point = 0 THEN "" ELSE SubSeq(text, point + 1, Len(text))
    IN  /\ whole # ""
        /\ \A i \in 1..Len(whole) : IsDigit(Char(whole, i))
        /\ \A i \in 1..Len(frac) : IsDigit(Char(frac, i))
        /\ point # 0 => Len(frac) \in {1, 2}

\* Number(val) of a string, with an optional sign
NumberOf(val) ==
    LET negative == val # "" /\ Char(val, 1) = "-"
        text == IF negative THEN SubSeq(val, 2, Len(val)) ELSE val
        point == IndexOf(text, ".")
        whole == IF point = 0 THEN text ELSE SubSeq(text, 1, point - 1)
        frac == IF point = 0 THEN "" ELSE SubSeq(text, point + 1, Len(text))
        h == 100 * parseInt(whole)
             + (IF Len(frac) = 1 THEN 10 * parseInt(frac) ELSE parseInt(frac))
    IN  IF ~IsDecimal(text) THEN NaN
        ELSE Number(IF negative THEN 0 - h ELSE h)

\* the keys normalizeNumbers is called with
numericKeys ==
    {"temperature", "fio2", "r", "ph", "pco2", "po2", "na", "k", "cl", "ca", "hct",
     "glucose", "lactate", "thb", "o2hb", "cohb", "hhb", "methb", "be", "chco3",
     "aado2", "so2", "chco3st", "p50", "cto2"}

\* the numeric properties of the record after normalizeNumbers
normalizeNumbers(obj) ==
    [key \in DOMAIN obj \cap numericKeys |->
        IF obj[key] = "" THEN Null ELSE NumberOf(obj[key])]

\* data.key of the normalized record
Get(data, key) == IF key \in DOMAIN data THEN data[key] ELSE Undef

\* data.key = n
Set(data, key, n) ==
    [k \in DOMAIN data \cup {key} |-> IF k = key THEN n ELSE data[k]]

\* n != null
NotNullish(n) == n.t \in {"number", "NaN"}

\* Number(x) * 0.133322, to the hundredth that fmt will print
mmHgToKPa(x) ==
    IF ~IsNumber(x) THEN Null
    ELSE Number((x.h * 133322 + 500000) \div 1000000)

\* lines 218-224
convertUnits(data) ==
    LET aado2 == Get(data, "aado2")
        d1 == IF IsNumber(aado2) /\ aado2.h > 4000
              THEN Set(data, "aado2", mmHgToKPa(aado2)) ELSE data
        p50 == Get(d1, "p50")
    IN  IF IsNumber(p50) /\ p50.h > 1000 THEN Set(d1, "p50", mmHgToKPa(p50)) ELSE d1

\* Number(n) || d, in hundredths
NumberOr(n, d) == IF IsNumber(n) /\ n.h # 0 THEN n.h ELSE d

Min(a, b) == IF a < b THEN a ELSE b
Max(a, b) == IF a > b THEN a ELSE b

\* n > lo && n < hi
Between(n, lo, hi) == IsNumber(n) /\ n.h > lo /\ n.h < hi

\* if (reportData.o2hb != null) reportData.o2hb = reportData.so2
alignO2hb(data) ==
    IF NotNullish(Get(data, "o2hb")) THEN Set(data, "o2hb", Get(data, "so2")) ELSE data

venousLaw(data) ==
    LET po2 == Get(data, "po2")
        d1 == IF Between(po2, 400, 600) THEN data
              ELSE Set(data, "po2", Number(Min(590, Max(410, NumberOr(po2, 500)))))
        so2 == Get(d1, "so2")
        d2 == IF Between(so2, 6000, 8000) THEN d1
              ELSE Set(d1, "so2", Number(Min(7900, Max(6100, NumberOr(so2, 7000)))))
    IN  alignO2hb(d2)

arterialLaw(data) ==
    LET p == NumberOr(Get(data, "po2"), 1200)
        minSat == IF p >= 1050 THEN 9600
                  ELSE IF p >= 950 THEN 9400
                  ELSE IF p >= 800 THEN 8900
                  ELSE IF p >= 700 THEN 8500
                  ELSE 7000
        so2 == Get(data, "so2")
        \* null >= minSat compares 0
        reaches == (IsNumber(so2) /\ so2.h >= minSat)
        d1 == IF reaches THEN data ELSE Set(data, "so2", Number(minSat))
    IN  alignO2hb(d1)

\* the record after enforceGasLaws, for a gasType that does not make it
\* throw
enforceGasLaws(data, gasType) ==
    IF ToLower(gasType) = "venous" THEN venousLaw(data) ELSE arterialLaw(data)

softGuards(data) ==
    LET ph == Get(data, "ph")
        d1 == IF IsNumber(ph) /\ ph.h < 680 THEN Set(data, "ph", Number(680))
              ELSE IF IsNumber(ph) /\ ph.h > 780 THEN Set(data, "ph", Number(780))
              ELSE data
        k == Get(d1, "k")
    IN  IF IsNumber(k) /\ k.h < 150 THEN Set(d1, "k", Number(150))
        ELSE IF IsNumber(k) /\ k.h > 900 THEN Set(d1, "k", Number(900))
        ELSE d1

\* Intl.NumberFormat('en-GB', { maximumFractionDigits: 2 }).format of a
\* number below a million
formatNumber(h) ==
    LET a == IF h < 0 THEN 0 - h ELSE h
        whole == a \div 100
        frac == a % 100
        grouped == IF whole >= 1000
                   THEN ToString(whole \div 1000) \o ","
                        \o (IF whole % 1000 < 100 THEN "0" ELSE "") \o format(whole % 1000)
                   ELSE ToString(whole)
    IN  (IF h < 0 THEN "-" ELSE "")
        \o grouped
        \o (IF frac = 0 THEN ""
            ELSE IF frac % 10 = 0 THEN "." \o ToString(frac \div 10)
            ELSE "." \o format(frac))

fmt(n) == IF IsNumber(n) THEN formatNumber(n.h) ELSE ""

\* String(value ?? '').padEnd(12, ' ') of a value that fmt has made a string
formatLineNullish(label, value, unit, reference) ==
    padEnd(label, 18) \o padEnd(value, 12) \o padEnd(unit, 11) \o reference \o "\n"

\* each line padded to maxWidth; nothing for an empty last line
RECURSIVE wrapPadded(_, _, _, _)
wrapPadded(words, maxWidth, currentLine, lines) ==
    IF words = <<>>
    THEN IF currentLine # "" THEN Append(lines, padEnd(currentLine, maxWidth)) ELSE lines
    ELSE LET word == Head(words)
         IN  IF Len(currentLine \o " " \o word) > maxWidth
             THEN wrapPadded(Tail(words), maxWidth, word,
                             Append(lines, padEnd(currentLine, maxWidth)))
             ELSE wrapPadded(Tail(words), maxWidth,
                             currentLine \o (IF currentLine # "" THEN " " ELSE "") \o word,
                             lines)

wordWrapPadded(text, maxWidth) == wrapPadded(split(text), maxWidth, "", <<>>)

\* value ?? '' of a property that is a string
OrEmpty(v) == IF v = Undefined THEN "" ELSE v

\* lines 231-293, from the record as parsed: numbers normalized, units
\* converted, laws and guards applied
gasReport(reportData, scenario, gasType) ==
    LET data == softGuards(enforceGasLaws(convertUnits(normalizeNumbers(reportData)),
                                          gasType))
        v(key) == fmt(Get(data, key))
        saturation == IF gasType = "Venous" THEN "(60.0 - 80.0)" ELSE "(95.0 - 99.0)"
    IN  "                            Blood Gas\n"
        \o "                          Emergency Department\n"
        \o Rule
        \o "Patient ID:       " \o OrEmpty(Prop(reportData, "patientId")) \o "\n"
        \o "Last Name         " \o OrEmpty(Prop(reportData, "lastName")) \o "\n"
        \o "First Name        " \o OrEmpty(Prop(reportData, "firstName")) \o "\n"
        \o "Temperature       " \o v("temperature") \o " oC\n"
        \o "FIO2              " \o v("fio2") \o "\n"
        \o "R                 " \o v("r") \o "\n"
        \o "Sample Type       " \o gasType \o "\n"
        \o Rule
        \o (IF gasType = "Venous"
            THEN formatLineNullish("pH", v("ph"), "", "(7.310 - 7.410)")
                 \o formatLineNullish("PCO2", v("pco2"), "kPa", "(5.30 - 6.70)")
                 \o formatLineNullish("PO2", v("po2"), "kPa", "(4.00 - 6.00)")
            ELSE formatLineNullish("pH", v("ph"), "", "(7.350 - 7.450)")
                 \o formatLineNullish("PCO2", v("pco2"), "kPa", "(4.67 - 6.00)")
                 \o formatLineNullish("PO2", v("po2"), "kPa", "(10.67 - 13.33)"))
        \o Rule
        \o formatLineNullish("Na+", v("na"), "mmol/L", "(135.0 - 148.0)")
        \o formatLineNullish("K+", v("k"), "mmol/L", "(3.50 - 4.50)")
        \o formatLineNullish("Cl-", v("cl"), "mmol/L", "(98.0 - 107.0)")
        \o formatLineNullish("Ca2+", v("ca"), "mmol/L", "(1.120 - 1.320)")
        \o Rule
        \o formatLineNullish("HCT", v("hct"), "%", "(35.0 - 50.0)")
        \o Rule
        \o formatLineNullish("Glucose", v("glucose"), "mmol/L", "(3.3 - 6.1)")
        \o formatLineNullish("Lactate", v("lactate"), "mmol/L", "(0.4 - 2.2)")
        \o Rule
        \o formatLineNullish("tHb", v("thb"), "g/dL", "(11.5 - 17.4)")
        \o formatLineNullish("O2 Hb", v("o2hb"), "%", saturation)
        \o formatLineNullish("COHb", v("cohb"), "%", "(0.5 - 2.5)")
        \o formatLineNullish("HHb", v("hhb"), "%", "(1.0 - 5.0)")
        \o formatLineNullish("MetHb", v("methb"), "%", "(0.4 - 1.5)")
        \o Rule
        \o formatLineNullish("BE", v("be"), "mmol/L", "(-2.3 - 2.3)")
        \o formatLineNullish("cHCO3", v("chco3"), "mmol/L", "")
        \o formatLineNullish("AaDO2", v("aado2"), "kPa", "")
        \o formatLineNullish("SO2", v("so2"), "%", saturation)
        \o formatLineNullish("cHCO3 st", v("chco3st"), "mmol/L", "(22.4 - 25.8)")
        \o formatLineNullish("P50", v("p50"), "kPa", "")
        \o formatLineNullish("ctO2", v("cto2"), "mL/dL", "")
        \o "\n\n"
        \o "+--------------------------------------------------------+\n"
        \o "| Clinical Summary                                       |\n"
        \o "+--------------------------------------------------------+\n"
        \o boxedLines(wordWrapPadded("Scenario: " \o scenario, 54), 54)
        \o "+--------------------------------------------------------+\n"

(***************************************************************************)
(* One generated record, with some of its fields missing, formatted by     *)
(* each of the three handlers.                                             *)
(***************************************************************************)
\* the record the prompt of the synchronous handlers gives as the structure
\* to follow
PromptRecord ==
    [patientId |-> "123456", lastName |-> "Smith", firstName |-> "Jane",
     temperature |-> "37.0", fio2 |-> "0.21", r |-> "0.80", ph |-> "7.35",
     pco2 |-> "5.50", po2 |-> "12.00", na |-> "140", k |-> "4.1", cl |-> "100",
     ca |-> "1.20", hct |-> "45", glucose |-> "5.5", lactate |-> "1.2",
     thb |-> "15.0", o2hb |-> "98.0", cohb |-> "1.1", hhb |-> "1.9",
     methb |-> "0.6", be |-> "0.0", chco3 |-> "24.0", aado2 |-> "2.0",
     so2 |-> "98.2", chco3st |-> "25.0", p50 |-> "3.5", cto2 |-> "20.0"]

\* the fields a record of the model may lack, at most MaxMissing at a time
\* or all of them
MaxMissing == 1
MissingChoices == {"ph", "po2", "so2", "k", "patientId"}

Without(record, fields) == [f \in DOMAIN record \ fields |-> record[f]]

GeneratedRecords ==
    {Without(PromptRecord, fields) :
        fields \in {S \in SUBSET MissingChoices : Cardinality(S) <= MaxMissing}}
    \cup {EmptyRecord}

GasTypes == {"Arterial", "Venous"}

ExplanationText == "Low pH with raised PCO2:  acute on chronic\nrespiratory acidosis."

\* lines 136-189 of the background handler
formatReportBackground ==
    /\ formatter.fn = "format"
    /\ formatter.background = NotApplied
    /\ \E r \in RandomDraws, year \in Years :
          formatter' = [formatter EXCEPT !.background =
              Value(formattedReport(formatter.reportData, formatter.scenario,
                        formatter.gasType,
                        getDobFromScenario(formatter.scenario, r[1], r[2], r[3], year)))]
    /\ UNCHANGED <<jobVars, retry, parser, gasCall>>

\* lines 129-187 of the handler that calls fetchWithRetry
formatReportCombined ==
    /\ formatter.fn = "format"
    /\ formatter.combined = NotApplied
    /\ formatter' = [formatter EXCEPT !.combined =
          Value(combinedReport(formatter.reportData, formatter.scenario,
                               formatter.gasType, ExplanationText))]
    /\ UNCHANGED <<jobVars, retry, parser, gasCall>>

\* lines 208-293 of the gas-report handler
formatReportGas ==
    /\ formatter.fn = "format"
    /\ formatter.gas = NotApplied
    /\ formatter' = [formatter EXCEPT !.gas =
          Value(gasReport(formatter.reportData, formatter.scenario, formatter.gasType))]
    /\ UNCHANGED <<jobVars, retry, parser, gasCall>>

InitFormat ==
    /\ store = [k \in {} |-> NoRecord]
    /\ writers = [k \in {} |-> <<>>]
    /\ faults = 0
    /\ extMode = "any"
    /\ calls = <<>>
    /\ inflight = {}
    /\ dispatched = {}
    /\ workers = <<>>
    /\ gasCall = NoGasCall
    /\ lastStatus = NoStatus
    /\ retry = NoRetry
    /\ parser = NoParser
    /\ formatter \in {[fn |-> "format", reportData |-> record, gasType |-> gasType,
                       scenario |-> ShortScenario, background |-> NotApplied,
                       combined |-> NotApplied, gas |-> NotApplied] :
                         record \in GeneratedRecords, gasType \in GasTypes}

NextFormat ==
    \/ formatReportBackground
    \/ formatReportCombined
    \/ formatReportGas

SpecFormat == InitFormat /\ [][NextFormat]_vars

(***************************************************************************)
(* extractFirstJsonObject applied to every short text over an opening      *)
(* brace, a closing brace and one other character.                         *)
(***************************************************************************)
MaxText == 4

BraceAlphabet == {"{", "}", "a"}

RECURSIVE BraceTexts(_)
BraceTexts(n) ==
    IF n = 0 THEN {""}
    ELSE BraceTexts(n - 1) \cup {t \o c : t \in BraceTexts(n - 1), c \in BraceAlphabet}

\* const candidate = extractFirstJsonObject(raw), line 234
extractFirstJsonObjectCall ==
    /\ parser.fn = "scan"
    /\ parser.span = NotApplied
    /\ parser' = [parser EXCEPT !.span = Value(extractFirstJsonObject(parser.text))]
    /\ UNCHANGED <<jobVars, retry, formatter, gasCall>>

InitScan ==
    /\ store = [k \in {} |-> NoRecord]
    /\ writers = [k \in {} |-> <<>>]
    /\ faults = 0
    /\ extMode = "any"
    /\ calls = <<>>
    /\ inflight = {}
    /\ dispatched = {}
    /\ workers = <<>>
    /\ lastStatus = NoStatus
    /\ retry = NoRetry
    /\ formatter = NoFormatter
    /\ gasCall = NoGasCall
    /\ parser \in {[fn |-> "scan", text |-> t, span |-> NotApplied] :
                     t \in BraceTexts(MaxText)}

NextScan == extractFirstJsonObjectCall

SpecScan == InitScan /\ [][NextScan]_vars

(***************************************************************************)
(* The gas-report handler, from the request to the response.  One          *)
(* invocation is two steps: up to the await of makeApiCall, and from its   *)
(* result to the response.                                                 *)
(***************************************************************************)
GasRequest(method, parses, scenario, gasType) ==
    [method |-> method, parses |-> parses, scenario |-> scenario, gasType |-> gasType]

\* bodies that parse, with each of the two fields given, empty or absent and
\* a gasType in another case or naming no sample type; a body that is not
\* JSON; a request that is not a POST
GasRequests ==
    {GasRequest("POST", TRUE, scenario, gasType) :
        scenario \in {ShortScenario, "", Undefined},
        gasType \in {"Arterial", "Venous", "venous", "Capillary", "", Undefined}}
    \cup {GasRequest("POST", FALSE, Undefined, Undefined),
          GasRequest("GET", TRUE, ShortScenario, "Arterial")}

\* what makeApiCall gives its caller: it throws (the fetch rejected, the
\* service answered a status that is not ok, the body was not JSON), or it
\* returns the body, of which the handler reads the model text ('' when
\* there are no candidates)
ApiThrows ==
    {"fetch failed", "Google API Error: 429 ", "Google API Error: 500 ",
     "Unexpected token < in JSON at position 0"}

ApiResults ==
    {[throws |-> TRUE, message |-> m, text |-> ""] : m \in ApiThrows}
    \cup {[throws |-> FALSE, message |-> "", text |-> t.text] : t \in ModelTexts}

\* makeApiCall was not called, or has not settled
NoResult == [throws |-> FALSE, message |-> "", text |-> Undefined]

\* the object JSON.parse returns for the JSON texts of the model; the nested
\* object under "o" is a property the handler never reads
RecordOf(json) ==
    IF json = "{}" THEN EmptyRecord
    ELSE IF json = Nested(0).json THEN [ph |-> "7.35"]
    ELSE [k |-> "41"]

\* line 62: enforceGasLaws throws for a sample type that is neither
InvalidGasType == "Invalid gasType. Use 'Arterial' or 'Venous'."

enforceGasLawsThrows(gasType) == ToLower(OrElse(gasType, "")) \notin {"venous", "arterial"}

MissingFields == "Missing required fields 'scenario' and/or 'gasType'."

GasResponse(code, body) == [code |-> code, body |-> body]

\* lines 102-158: the method, the body, the two required fields
gasReportHandler(req) ==
    /\ gasCall = NoGasCall
    /\ gasCall' =
          IF req.method # "POST"
          THEN [fn |-> "gasReport", request |-> req, pc |-> "done",
                dataResult |-> NoResult, response |-> GasResponse(405, "Method Not Allowed")]
          ELSE IF ~req.parses
          THEN [fn |-> "gasReport", request |-> req, pc |-> "done",
                dataResult |-> NoResult, response |-> GasResponse(500, "Unexpected token o in JSON at position 1")]
          ELSE IF Falsy(req.scenario) \/ Falsy(req.gasType)
          THEN [fn |-> "gasReport", request |-> req, pc |-> "done",
                dataResult |-> NoResult, response |-> GasResponse(400, MissingFields)]
          ELSE [fn |-> "gasReport", request |-> req, pc |-> "makeApiCall",
                dataResult |-> NoResult, response |-> GasResponse(0, "")]
    /\ UNCHANGED <<jobVars, retry, parser, formatter>>

\* lines 188-307: the text is parsed, the laws are enforced, the report is
\* formatted; whatever was thrown on the way is answered 500 by the catch
gasReportHandlerResume(result) ==
    /\ gasCall.fn = "gasReport"
    /\ gasCall.pc = "makeApiCall"
    /\ LET req == gasCall.request
           parsed == jsonExtraction(result.text)
           response ==
               IF result.throws THEN GasResponse(500, result.message)
               ELSE IF ~parsed.ok THEN GasResponse(500, parsed.value)
               ELSE IF enforceGasLawsThrows(req.gasType)
                    THEN GasResponse(500, InvalidGasType)
               ELSE GasResponse(200, gasReport(RecordOf(parsed.value), req.scenario,
                                               req.gasType))
       IN  gasCall' = [gasCall EXCEPT !.pc = "done", !.dataResult = result,
                                    !.response = response]
    /\ UNCHANGED <<jobVars, retry, parser, formatter>>

NextGas ==
    \/ \E req \in GasRequests : gasReportHandler(req)
    \/ \E result \in ApiResults : gasReportHandlerResume(result)

SpecGas == Init /\ [][NextGas]_vars

(***************************************************************************)
(* Claims.                                                                 *)
(***************************************************************************)
Terminal == {"completed", "failed"}

\* the job identifiers createJob has returned in a 202
Returned == {calls[i].jobId : i \in {n \in 1..Len(calls) : calls[n].code = 202}}

\* the keys createJob has written: the jobs
Jobs == {k \in DOMAIN writers : Head(writers[k]) = "invoke"}

\* C1: once the record stored for a job is "completed" or "failed", no
\* operation changes it again (so the status leaves "processing" once),
\* also when the background worker is invoked again for the same jobId.
C1_TerminalRecordIsFinal ==
    [][\A k \in Jobs :
          store[k].status \in Terminal => store'[k] = store[k]]_vars

\* C2: no exception ever leaves the handler of the background worker.
C2_WorkerNeverThrows ==
    \A w \in 1..Len(workers) : workers[w].pc # "threw"

\* C4: a createJob whose body has no scenario, or an empty one, is answered
\* 400, has written nothing to the Job Store and has dispatched no worker.
C4_MissingScenarioIs400 ==
    \A i \in 1..Len(calls) :
        (calls[i].parses /\ Falsy(calls[i].scenario)) =>
            /\ calls[i].code = 400
            /\ calls[i].jobId \notin DOMAIN store
            /\ calls[i].jobId \notin dispatched

\* C5: when createJob has dispatched the worker for a job or has answered
\* 202 with its jobId, the invoke endpoint has written that key exactly
\* once, before any other writer, and what it wrote is status "processing"
\* with the scenario and sample type of the request; it has written no
\* other key.
C5_OneWriteBeforeDispatch ==
    /\ \A i \in 1..Len(calls) :
          LET c == calls[i]
          IN  (c.code = 202 \/ c.jobId \in dispatched) =>
                 /\ c.jobId \in DOMAIN store
                 /\ Head(writers[c.jobId]) = "invoke"
                 /\ Cardinality({n \in 1..Len(writers[c.jobId]) :
                                    writers[c.jobId][n] = "invoke"}) = 1
                 /\ Len(writers[c.jobId]) = 1 =>
                       /\ store[c.jobId].status = "processing"
                       /\ Prop(store[c.jobId], "scenario") = c.scenario
                       /\ Prop(store[c.jobId], "gasType") = c.gasType
    /\ \A k \in DOMAIN writers :
          ("invoke" \in {writers[k][n] : n \in 1..Len(writers[k])}) =>
             Cardinality({i \in 1..Len(calls) : calls[i].jobId = k}) = 1

\* a 202 has been returned for a job whose record is as createJob wrote it
\* and whose worker has been dispatched
C5_Witness ==
    \E i \in 1..Len(calls) :
        /\ calls[i].code = 202
        /\ calls[i].jobId \in dispatched
        /\ store[calls[i].jobId].status = "processing"
        /\ Prop(store[calls[i].jobId], "scenario") = ShortScenario

\* C6: the status endpoint never answers with a record for a jobId that
\* createJob did not issue: when the read of the store succeeds it answers
\* 404.
C6_ForeignJobIsNotFound ==
    (lastStatus.jobId = ForeignId /\ lastStatus.code # 500) => lastStatus.code = 404

\* a step of the status endpoint that answers a request for jobId
StatusStep(jobId) ==
    /\ lastStatus'.jobId = jobId
    /\ lastStatus' # lastStatus \/ faults' # faults
    /\ UNCHANGED <<calls, inflight, workers>>

\* the call of createJob that issued jobId
CallOf(jobId) == CHOOSE i \in 1..Len(calls) : calls[i].jobId = jobId

\* C3 as stated: a getStatus for a jobId that createJob has returned, whose
\* read of the store succeeds, answers 200 with status "processing",
\* whatever the dispatched worker has done by then.
C3_StatusAfterCreateIsProcessing ==
    [][\A j \in Returned :
          (StatusStep(j) /\ faults' = faults) =>
              /\ lastStatus'.code = 200
              /\ Prop(lastStatus'.body, "status") = "processing"]_vars

\* C3 amended: a getStatus for a jobId that createJob has returned never
\* answers 404: it answers 500 when the read of the store throws and 200
\* otherwise, with the record createJob wrote (status "processing", the
\* scenario and the sample type of the request) as long as no worker has
\* written the key, and with a terminal record once one has.
C3_StatusAfterCreate ==
    [][\A j \in Returned :
          StatusStep(j) =>
              IF faults' # faults
              THEN lastStatus'.code = 500
              ELSE /\ lastStatus'.code = 200
                   /\ IF KeyWrites(j) = 1
                      THEN /\ Prop(lastStatus'.body, "status") = "processing"
                           /\ Prop(lastStatus'.body, "scenario") = calls[CallOf(j)].scenario
                           /\ Prop(lastStatus'.body, "gasType") = calls[CallOf(j)].gasType
                      ELSE Prop(lastStatus'.body, "status") \in Terminal]_vars

\* the status endpoint has answered 200 "processing" for a returned job
\* whose worker is running
C3_Witness ==
    /\ lastStatus.jobId \in Returned
    /\ lastStatus.code = 200
    /\ Prop(lastStatus.body, "status") = "processing"
    /\ \E w \in 1..Len(workers) :
          workers[w].jobId = lastStatus.jobId /\ workers[w].pc \in {"fetch", "write", "catch"}

\* C7 as stated: getStatus answers 400 without a jobId, 404 when the store
\* holds no record under the jobId, and otherwise 200 with the stored record.
C7_StatusCodes ==
    [][\A j \in StatusInputs :
          StatusStep(j) =>
              IF Falsy(j) THEN lastStatus'.code = 400
              ELSE IF j \notin DOMAIN store THEN lastStatus'.code = 404
              ELSE lastStatus'.code = 200 /\ lastStatus'.body = store[j]]_vars

\* C7 amended: getStatus answers 400 without a jobId; with one it answers
\* 500 when the read of the store throws, and when the read succeeds 404 if
\* the store holds no record under the jobId and otherwise 200 with exactly
\* the stored record.
C7_StatusCodesWhenStoreAnswers ==
    [][\A j \in StatusInputs :
          StatusStep(j) =>
              IF Falsy(j) THEN lastStatus'.code = 400 /\ faults' = faults
              ELSE IF faults' # faults THEN lastStatus'.code = 500
              ELSE IF j \notin DOMAIN store THEN lastStatus'.code = 404
              ELSE lastStatus'.code = 200 /\ lastStatus'.body = store[j]]_vars

\* the status endpoint has answered 200 with the record of a failed job
C7_Witness ==
    /\ lastStatus.code = 200
    /\ lastStatus.jobId \in DOMAIN store
    /\ lastStatus.body = store[lastStatus.jobId]
    /\ Prop(lastStatus.body, "status") = "failed"

\* C8 as stated: getStatus changes nothing in the store, and answers as the
\* previous getStatus for the same jobId did when the key has not been
\* written in between.
C8_StatusIsIdempotent ==
    [][\A j \in StatusInputs :
          StatusStep(j) =>
              /\ store' = store /\ writers' = writers
              /\ lastStatus'.repeat =>
                    /\ lastStatus'.code = lastStatus.code
                    /\ lastStatus'.body = lastStatus.body]_vars

\* C8 amended: getStatus changes nothing in the store on any path, and
\* answers as the previous getStatus for the same jobId did when the key has
\* not been written in between and the read of the store succeeded both
\* times or threw both times.
C8_StatusIsIdempotentWhenStoreAnswers ==
    [][\A j \in StatusInputs :
          StatusStep(j) =>
              /\ store' = store /\ writers' = writers
              /\ (lastStatus'.repeat
                    /\ (lastStatus.code = 500) = (lastStatus'.code = 500)) =>
                    /\ lastStatus'.code = lastStatus.code
                    /\ lastStatus'.body = lastStatus.body]_vars

\* a finished job has been polled twice in a row and the second answer is
\* its record
C8_Witness ==
    /\ lastStatus.repeat
    /\ lastStatus.code = 200
    /\ Prop(lastStatus.body, "status") = "completed"
    /\ lastStatus.body = StoreGet(lastStatus.jobId)

\* the first position from which needle occurs in hay at or after from, 0 if none
FindFrom(hay, needle, from) ==
    LET at == {i \in from..(Len(hay) - Len(needle) + 1) :
                  SubSeq(hay, i, i + Len(needle) - 1) = needle}
    IN  IF at = {} THEN 0 ELSE CHOOSE i \in at : \A k \in at : i <= k

Contains(hay, needle) == FindFrom(hay, needle, 1) # 0

\* the words occur in hay one after the other, from position from on
RECURSIVE WordsInOrder(_, _, _)
WordsInOrder(hay, words, from) ==
    IF words = <<>> THEN TRUE
    ELSE LET i == FindFrom(hay, Head(words), from)
         IN  i # 0 /\ WordsInOrder(hay, Tail(words), i + Len(Head(words)))

\* the n-th job has been returned to the client
JobReturned(n) == Uuid(n) \in Returned

\* the last answer of the status endpoint is a 200 for the n-th job with
\* this status
Polled(n, status) ==
    /\ lastStatus.jobId = Uuid(n)
    /\ lastStatus.code = 200
    /\ Prop(lastStatus.body, "status") = status

ReportCarries(report, n) ==
    /\ Contains(report, "Blood Type        " \o calls[n].gasType \o "\n")
    /\ WordsInOrder(report, split(calls[n].scenario), 1)
    /\ Len("Scenario: " \o calls[n].scenario) <= 54 =>
          Contains(report, calls[n].scenario)

FailureWriteRejected(n) ==
    \E w \in 1..Len(workers) : workers[w].jobId = Uuid(n) /\ workers[w].pc = "threw"

\* the worker of the n-th job has ended
WorkerEnded(n) ==
    \E w \in 1..Len(workers) : workers[w].jobId = Uuid(n) /\ workers[w].pc \in {"done", "threw"}

\* C10 as stated, its safety half: once the worker of a job has ended, the
\* record of the job is no longer "processing".
C10_NotProcessingAfterWorker ==
    \A n \in 1..Len(calls) :
        (extMode = "netfail" /\ WorkerEnded(n)) => store[Uuid(n)].status # "processing"

\* C10 amended: when every call of the generation service throws a network
\* error, then unless the catch block's write of the failure record is
\* itself rejected by the Job Store, polling a returned job eventually
\* yields "failed" with a non-empty error string, and the record is not
\* "processing" once the worker has ended.
C10_FailedEventually ==
    /\ [](\A n \in 1..MaxCalls :
             (extMode = "netfail" /\ WorkerEnded(n) /\ ~FailureWriteRejected(n)) =>
                 store[Uuid(n)].status = "failed")
    /\ \A n \in 1..MaxCalls :
          (extMode = "netfail" /\ JobReturned(n)) ~>
              (FailureWriteRejected(n)
                 \/ (Polled(n, "failed") /\ ~Falsy(Prop(lastStatus.body, "error"))))

\* the client has polled the failure of a job whose network error carried
\* no message
C10_Witness ==
    /\ extMode = "netfail"
    /\ Polled(1, "failed")
    /\ lastStatus.body.error = "An unknown error occurred in the background task."

\* the worker has never been invoked for this job
NeverInvoked(jobId) == \A w \in 1..Len(workers) : workers[w].jobId # jobId

\* C11: every dispatch goes with a 202 for its job, whatever becomes of the
\* dispatched request, and as long as no worker invocation exists for a
\* dispatched job (the request is in flight or lost) its record is the one
\* createJob wrote, with status "processing".
C11_UndeliveredStaysProcessing ==
    \A i \in 1..Len(calls) :
        calls[i].jobId \in dispatched =>
            /\ calls[i].code = 202
            /\ NeverInvoked(calls[i].jobId) =>
                  /\ store[calls[i].jobId].status = "processing"
                  /\ writers[calls[i].jobId] = <<"invoke">>

\* a dispatched request has been lost: it is no longer in flight and no
\* worker has been invoked for its job
C11_Witness ==
    \E i \in 1..Len(calls) :
        /\ calls[i].jobId \in dispatched \ inflight
        /\ NeverInvoked(calls[i].jobId)
        /\ calls[i].code = 202
        /\ store[calls[i].jobId].status = "processing"

\* the requests the wrapper has made, and the backoff waits it has finished
RequestsMade == Len(retry.log)
WaitsDone == Len(retry.waits)

\* the wrapper has returned or thrown
WrapperEnded == retry.fn # "none" /\ retry.pc \in {"returned", "answered"}

\* the most requests one invocation makes
MaxAttempts ==
    IF retry.fn = "makeApiCall" THEN RetryLimit + 1 ELSE retry.maxRetries

\* the service answered 429 to the first k requests
Throttled(k) ==
    /\ RequestsMade >= k
    /\ \A j \in 1..k : retry.log[j] = TooManyRequests

\* the wrapper handed a success back to its caller
ReturnedSuccess ==
    /\ WrapperEnded
    /\ retry.result \in {"response", "json"}
    /\ retry.log[RequestsMade] = Ok

\* C12: when the service answers 429 to the first k requests and success to
\* the next one, the wrapper has made k + 1 requests and finished k backoff
\* waits, makes no further request and returns the success; with k = 2 that
\* is two waits.
C12_SuccessAfterThrottling ==
    \A k \in 0..(RetryLimit + MaxRetriesArg) :
        (Throttled(k) /\ RequestsMade = k + 1 /\ retry.log[k + 1] = Ok) =>
            /\ k < MaxAttempts
            /\ ReturnedSuccess
            /\ WaitsDone = k

C12_Witness ==
    /\ Throttled(2)
    /\ RequestsMade = 3
    /\ ReturnedSuccess
    /\ WaitsDone = 2
    /\ retry.answer = "parses"

\* C13: when the service answers 429 to every request, the wrapper ends
\* after exactly MaxAttempts requests, never makes more, and its caller
\* answers with an error (500), never going on to a report.
C13_GivesUpWhenAlwaysThrottled ==
    Throttled(RequestsMade) =>
        /\ RequestsMade <= MaxAttempts
        /\ WrapperEnded =>
              /\ RequestsMade = MaxAttempts
              /\ retry.result \in {"null", "error"}
              /\ retry.pc = "answered" => retry.answer = "500"

C13_Witness ==
    /\ Throttled(RequestsMade)
    /\ RequestsMade = MaxAttempts
    /\ retry.pc = "answered"
    /\ retry.answer = "500"

\* a response that is neither a success nor a 429
OtherFailure(o) == o \notin {Ok, TooManyRequests, Reject}

\* C14: a response that is neither a success nor a 429 is handed back at
\* once: no request and no backoff wait follows it, so when it answers the
\* first request the wrapper ends after exactly one request and no wait,
\* and the caller answers with an error.
C14_OtherFailureNotRetried ==
    \A j \in 1..RequestsMade :
        OtherFailure(retry.log[j]) =>
            /\ j = RequestsMade
            /\ WrapperEnded
            /\ retry.result \in {"response", "error"}
            /\ WaitsDone = j - 1
            /\ retry.pc = "answered" => retry.answer = "500"

C14_Witness ==
    /\ RequestsMade = 1
    /\ OtherFailure(retry.log[1])
    /\ WaitsDone = 0
    /\ retry.pc = "answered"
    /\ retry.answer = "500"

\* C15: a network exception on an attempt before the last one is never
\* propagated to the caller: the wrapper throws it only on its last
\* attempt, and before that waits as it does after a 429.
C15_NetworkErrorRetried ==
    /\ (WrapperEnded /\ retry.result = "rejected") => RequestsMade = MaxAttempts
    /\ \A j \in 1..RequestsMade :
          (retry.log[j] = Reject /\ j < MaxAttempts) =>
              (j < RequestsMade \/ retry.pc = "wait")

\* the invocations of the background worker for jobId; each one awaits fetch
\* once (line 114), outside any loop, so they are also the requests made to
\* the generation service for the job
InvocationsFor(jobId) == {w \in 1..Len(workers) : workers[w].jobId = jobId}

\* the record of a job that failed on account of a 429
ThrottledFailure(jobId) ==
    /\ store[jobId].status = "failed"
    /\ Prop(store[jobId], "error") = "Google API Error: " \o TooManyRequests

\* C16: a job is written "failed" on account of throttling only when the
\* retries are exhausted: not after a single request to the generation
\* service was answered 429.
C16_ThrottlingFailsOnlyAfterRetries ==
    \A jobId \in Jobs :
        Cardinality(InvocationsFor(jobId)) = 1 => ~ThrottledFailure(jobId)

\* what the parser is to hand back for the text: its JSON object
Recovers(result) == result.ok /\ result.value = parser.object

\* C17: a parser returns the JSON object of a text that is the pure object,
\* the object inside a code fence with an optional language tag, or the
\* object between leading and trailing prose, and fails for a text that
\* holds no JSON object.
C17_ParsersRecoverObjectOrFail ==
    \A result \in {parser.safe, parser.inline} \ {NotApplied} :
        /\ parser.form \in {"json", "fenced", "prose"} => Recovers(result)
        /\ parser.form = "none" => ~result.ok

\* the record of a job that failed because the worker's JSON.parse of the
\* model text threw; the only model text of Outcomes that is not a pure
\* object is the full record inside a code fence
ParseFailure(jobId) ==
    /\ store[jobId].status = "failed"
    /\ Prop(store[jobId], "error") = "Unexpected token in JSON at position 0"

\* C18: a job is written "failed" for a parse error only when no JSON
\* object can be recovered from the model text: never for an object that is
\* wrapped in a code fence.
C18_FencedResponseIsRecovered == \A jobId \in Jobs : ~ParseFailure(jobId)

\* the rows of the table of results: label and field
Rows ==
    { <<"pH", "ph">>, <<"PCO2", "pco2">>, <<"PO2", "po2">>, <<"Na+", "na">>,
      <<"K+", "k">>, <<"Cl-", "cl">>, <<"Ca2+", "ca">>, <<"HCT", "hct">>,
      <<"Glucose", "glucose">>, <<"Lactate", "lactate">>, <<"tHb", "thb">>,
      <<"O2 Hb", "o2hb">>, <<"COHb", "cohb">>, <<"HHb", "hhb">>,
      <<"MetHb", "methb">>, <<"BE", "be">>, <<"cHCO3", "chco3">>,
      <<"AaDO2", "aado2">>, <<"SO2", "so2">>, <<"cHCO3 st", "chco3st">>,
      <<"P50", "p50">>, <<"ctO2", "cto2">> }

\* the line of the report that starts with the label column of label,
\* without its line feed
RowOf(report, label) ==
    LET p == CHOOSE p \in 1..(Len(report) - 17) :
                 /\ p = 1 \/ Char(report, p - 1) = "\n"
                 /\ SubSeq(report, p, p + 17) = padEnd(label, 18)
        q == CHOOSE q \in p..Len(report) :
                 /\ Char(report, q) = "\n"
                 /\ \A k \in p..(q - 1) : Char(report, k) # "\n"
    IN  SubSeq(report, p, q - 1)

\* the columns of a row: the value, the reference range, and all but the
\* value
ValueColumn(row) == SubSeq(row, 19, 30)
ReferenceColumn(row) == SubSeq(row, 42, Len(row))
Frame(row) == SubSeq(row, 1, 18) \o SubSeq(row, 31, Len(row))

\* the reports formatted so far, each with the handler's report of the
\* whole record for the same sample type
Formatted ==
    (IF formatter.background = NotApplied THEN {}
     ELSE {[result |-> formatter.background,
            whole |-> formattedReport(PromptRecord, formatter.scenario,
                                      formatter.gasType, "01/01/1960")]})
    \cup (IF formatter.combined = NotApplied THEN {}
          ELSE {[result |-> formatter.combined,
                 whole |-> combinedReport(PromptRecord, formatter.scenario,
                                          formatter.gasType, ExplanationText)]})
    \cup (IF formatter.gas = NotApplied THEN {}
          ELSE {[result |-> formatter.gas,
                 whole |-> gasReport(PromptRecord, formatter.scenario,
                                     formatter.gasType)]})

\* C19: formatting a record that lacks fields does not throw, and the row
\* of each missing field has a value column of spaces only, with its label,
\* unit and reference range as in the report of the whole record.
C19_MissingFieldsAreBlank ==
    \A f \in Formatted :
        /\ f.result.ok
        /\ \A row \in Rows :
              row[2] \notin DOMAIN formatter.reportData =>
                  /\ ValueColumn(RowOf(f.result.value, row[1])) = padEnd("", 12)
                  /\ Frame(RowOf(f.result.value, row[1])) = Frame(RowOf(f.whole, row[1]))

ArterialRanges ==
    [pH |-> {"(7.350 - 7.450)"}, PCO2 |-> {"(4.67 - 6.00)"}, PO2 |-> {"(10.67 - 13.33)"}]
VenousRanges ==
    [pH |-> {"(7.310 - 7.410)"}, PCO2 |-> {"(5.30 - 6.70)"},
     PO2 |-> {"(4.00 - 6.70)", "(4.00 - 6.00)"}]

\* C20: in every report the reference ranges of pH, PCO2 and PO2 are the
\* venous ones when the sample type of the request is Venous and the
\* arterial ones when it is Arterial.
C20_RangesFollowSampleType ==
    \A f \in Formatted :
        f.result.ok =>
            \A label \in {"pH", "PCO2", "PO2"} :
                ReferenceColumn(RowOf(f.result.value, label)) \in
                    (IF formatter.gasType = "Venous"
                     THEN VenousRanges[label] ELSE ArterialRanges[label])

\* the report of another run of the background handler's formatting on the
\* same record, sample type and scenario: the run whose draws of
\* Math.random() are all 0
ReferenceRun ==
    formattedReport(formatter.reportData, formatter.scenario, formatter.gasType,
                    getDobFromScenario(formatter.scenario, 0, 0, 0, 2025))

\* C21: formatting is deterministic: the report of a run is the report of
\* any other run on the same record, sample type and scenario text.
C21_ReportIsDeterministic ==
    formatter.fn = "format" /\ formatter.background # NotApplied =>
        formatter.background.value = ReferenceRun

\* the gas-report handler has answered
GasAnswered == gasCall.fn = "gasReport" /\ gasCall.pc = "done"

\* a POST whose body parses and whose scenario is missing, or whose gasType
\* is missing or is neither 'Arterial' nor 'Venous'
InvalidInput(req) ==
    /\ req.method = "POST"
    /\ req.parses
    /\ (Falsy(req.scenario) \/ Falsy(req.gasType) \/ req.gasType \notin GasTypes)

\* the generation service was not asked, or it answered a JSON object: what
\* the handler answers is down to the request alone
ServiceNotAtFault ==
    \/ gasCall.dataResult = NoResult
    \/ ~gasCall.dataResult.throws /\ jsonExtraction(gasCall.dataResult.text).ok

\* C22: a synchronous request whose scenario is missing, or whose gasType is
\* missing or outside {Arterial, Venous}, is answered with a 4xx status and a
\* message naming the problem, never with 500 (the generation service being
\* at no fault).
C22_InvalidInputIs4xx ==
    GasAnswered /\ InvalidInput(gasCall.request) /\ ServiceNotAtFault =>
        /\ gasCall.response.code \in 400..499
        /\ gasCall.response.body # ""

\* a Job Store operation of a synchronous endpoint fails in this step
SyncStoreFailure == faults' = faults + 1 /\ workers' = workers

\* createJob answers 500, gives no jobId and dispatches nothing
CreateJobFails ==
    /\ Len(calls') = Len(calls) + 1
    /\ calls'[Len(calls')].pc = "done"
    /\ calls'[Len(calls')].code = 500
    /\ UNCHANGED <<store, inflight, dispatched, lastStatus>>

\* getStatus answers 500 with an error message and no record
GetStatusFails ==
    /\ lastStatus'.code = 500
    /\ lastStatus'.body = [error |-> "Failed to get report status."]
    /\ UNCHANGED <<store, inflight, dispatched, calls>>

\* C23: when a Job Store operation fails, the synchronous endpoint answers
\* 500 with an error message instead of throwing: createJob returns no jobId
\* and dispatches no worker, then and later; getStatus returns no record.
C23_StoreFailureIs500 ==
    [][/\ SyncStoreFailure => CreateJobFails \/ GetStatusFails
       /\ \A i \in 1..Len(calls') :
             calls'[i].code = 500 =>
                 /\ calls'[i].jobId \notin dispatched'
                 /\ calls'[i].jobId \notin Returned'
                 /\ calls'[i].jobId \notin DOMAIN store']_vars

\* createJob has failed on the Job Store
C23_Witness ==
    /\ faults > 0
    /\ \E i \in 1..Len(calls) : calls[i].code = 500 /\ calls[i].jobId # Undefined

\* the record stored under key k has the shape its status calls for
WellShaped(k) ==
    LET r == store[k]
    IN  /\ "status" \in DOMAIN r
        /\ r.status \in {"processing", "completed", "failed"}
        /\ r.status = "completed" =>
              /\ "report" \in DOMAIN r
              /\ ~Falsy(r.report)
              /\ "error" \notin DOMAIN r
        /\ r.status = "failed" =>
              /\ "error" \in DOMAIN r
              /\ ~Falsy(r.error)
              /\ "report" \notin DOMAIN r
        /\ r.status = "processing" =>
              \E i \in 1..Len(calls) :
                  /\ calls[i].jobId = k
                  /\ Prop(r, "scenario") = calls[i].scenario
                  /\ Prop(r, "gasType") = calls[i].gasType

\* C24: every stored record has status processing, completed or failed; a
\* completed record carries a report and no error, a failed record a
\* non-empty error and no report, a processing record the scenario and the
\* gasType that were given to the createJob that wrote it.
C24_RecordsAreWellShaped == \A k \in DOMAIN store : WellShaped(k)

\* a worker has replaced the record of a job by a completed one
C24_Witness ==
    \E k \in DOMAIN store : store[k].status = "completed" /\ Len(writers[k]) = 2

\* the worker executions that have written key k
WorkerWriters(k) == {writers[k][n] : n \in 1..Len(writers[k])} \ {"invoke"}

\* C25: for each jobId at most one execution of the background worker ever
\* writes the record of that job, so that no two terminal writes of one key
\* can race.
C25_OneWorkerWritesAJob ==
    \A k \in Jobs : Cardinality(WorkerWriters(k)) <= 1

\* Math.random() * 1000 is below this
JitterBound == 1000

\* C26: the backoff wait after the attempt with index a (from 0) lasts at
\* least baseDelay * 2^a and exceeds it only by a jitter that is not negative
\* and is bounded, whether the attempt was answered 429 or threw a network
\* exception.
C26_BackoffIsExponential ==
    retry.fn # "none" =>
        \A n \in 1..WaitsDone :
            /\ retry.log[n] \in {TooManyRequests, Reject}
            /\ retry.waits[n] >= BaseDelay * Pow2(n - 1)
            /\ retry.waits[n] - BaseDelay * Pow2(n - 1) < JitterBound

\* fetchWithRetry has waited after a network exception and again after a 429
C26_Witness ==
    /\ retry.fn = "fetchWithRetry"
    /\ WaitsDone >= 2
    /\ retry.log[1] = Reject
    /\ retry.log[2] = TooManyRequests
    /\ retry.waits[2] = 2 * InitialDelay

\* the position of the brace that closes the one opened before position j,
\* depth braces being open there; 0 when it is never closed
RECURSIVE ClosingBrace(_, _, _)
ClosingBrace(s, j, depth) ==
    IF j > Len(s) THEN 0
    ELSE IF Char(s, j) = "{" THEN ClosingBrace(s, j + 1, depth + 1)
    ELSE IF Char(s, j) = "}"
         THEN IF depth = 1 THEN j ELSE ClosingBrace(s, j + 1, depth - 1)
    ELSE ClosingBrace(s, j + 1, depth)

\* the positions where a balanced {...} span starts
SpanStarts(s) ==
    {i \in 1..Len(s) : Char(s, i) = "{" /\ ClosingBrace(s, i + 1, 1) # 0}

\* the balanced span with the leftmost start, '' when there is none
FirstSpan(s) ==
    IF SpanStarts(s) = {} THEN ""
    ELSE LET i == CHOOSE m \in SpanStarts(s) : \A n \in SpanStarts(s) : m <= n
         IN  SubSeq(s, i, ClosingBrace(s, i + 1, 1))

\* C27: for every text, extractFirstJsonObject returns the balanced {...}
\* span with the leftmost start, also when an unmatched closing brace comes
\* before it, and null only when the text holds no balanced span.
C27_FirstBalancedSpan ==
    parser.fn = "scan" /\ parser.span # NotApplied =>
        parser.span.value = FirstSpan(parser.text)

\* the record under key k in a store, NoRecord when it has none
RecordIn(st, k) == IF k \in DOMAIN st THEN st[k] ELSE NoRecord

\* this step is one of a createJob that generated k or of a worker that was
\* invoked for k
StepOfJob(k) ==
    \/ /\ Len(calls') = Len(calls) + 1
       /\ calls'[Len(calls')].jobId = k
    \/ \E w \in 1..Len(workers) : workers'[w] # workers[w] /\ workers[w].jobId = k

\* C28: operations on one job never touch the record of another: a step
\* changes the record under a key only when it is a step of the createJob
\* that generated that key or of a worker invoked for it, whatever the
\* interleaving of invoke, worker and status calls.
C28_OtherRecordsUnchanged ==
    [][\A k \in DOMAIN store \cup DOMAIN store' :
          RecordIn(store', k) # RecordIn(store, k) => StepOfJob(k)]_vars

\* the record of the earlier job is still the one createJob wrote while a
\* worker has written the record of the job created in this run
C28_Witness ==
    /\ writers[EarlierId] = <<"invoke">>
    /\ \E k \in DOMAIN store \ {EarlierId} :
          /\ Len(writers[k]) = 2
          /\ store[k].status \in Terminal
    /\ \E w \in 1..Len(workers) : workers[w].jobId = EarlierId

\* C29: whenever an invoke endpoint has answered with an error (400 or 500),
\* and so has given the caller no jobId, the Job Store holds no record
\* created by that request.
C29_ErrorLeavesNoRecord ==
    \A i \in 1..Len(calls) :
        calls[i].pc = "done" /\ calls[i].code \in {400, 500} =>
            calls[i].jobId \notin DOMAIN store

\* what holds of fetchWithRetry at every moment: it has made at most
\* maxRetries requests; once it has ended, it has returned null exactly when
\* its last request was answered 429 and has thrown exactly when its last
\* request threw
BoundedAndExact ==
    retry.fn = "fetchWithRetry" =>
        /\ RequestsMade <= retry.maxRetries
        /\ WrapperEnded =>
              /\ RequestsMade >= 1
              /\ retry.result = "null" <=> retry.log[RequestsMade] = TooManyRequests
              /\ retry.result = "rejected" <=> retry.log[RequestsMade] = Reject

\* C30: fetchWithRetry terminates whatever the outcomes of its requests are
\* and makes at most maxRetries requests; it returns null exactly when its
\* last request was answered 429 and throws exactly when its last request
\* threw.
C30_TerminatesWithinMaxRetries ==
    /\ []BoundedAndExact
    /\ retry.fn = "fetchWithRetry" => <>WrapperEnded

\* fetchWithRetry has ended after maxRetries requests, a thrown one among
\* them, the last answered 429
C30_Witness ==
    /\ retry.fn = "fetchWithRetry"
    /\ WrapperEnded
    /\ retry.maxRetries >= 3
    /\ RequestsMade = retry.maxRetries
    /\ retry.log[1] = Reject
    /\ retry.result = "null"

====
